---- MODULE Spec2Model ----
(***************************************************************************)
(* Model of the output validation and repair pipeline of the interview     *)
(* question generator: modules/question_generator.py (QuestionGenerator),  *)
(* utils/jason_safety.py (try_load_json) and modules/schemas.py (the       *)
(* pydantic schema).                                                       *)
(*                                                                         *)
(* Text is a sequence of lexical tokens.  A token stands for one character *)
(* (a brace, a comma, a quote) or for one unbroken run of characters of    *)
(* the same class (a word, a run of white space, a fence marker).  The     *)
(* decoder and the regular-expression substitutions of try_load_json are   *)
(* defined on these sequences as the code defines them on characters.      *)
(***************************************************************************)
EXTENDS Integers, Sequences, FiniteSets, TLC

(***************************************************************************)
(* Tokens                                                                  *)
(***************************************************************************)
DQ == "\""
EscQ == "\\\""
SQ == "'"
Fence == "<fence>"
WsTok == {" ", "\n"}
SmartQuoteTok == {"<lsq>", "<rsq>", "<ldq>", "<rdq>", "<lgu>", "<rgu>"}
PunctTok == {"{", "}", "[", "]", ",", ":"}
NumTok == {"0", "1", "7"}
\* tokens that are not made of the characters [A-Za-z0-9_]
NonWordTok == WsTok \cup SmartQuoteTok \cup PunctTok \cup {DQ, EscQ, SQ, Fence, "?", "."}

IsIdentStart(tk) == tk \notin NonWordTok /\ tk \notin NumTok
IsIdentChar(tk) == tk \notin NonWordTok

(***************************************************************************)
(* Decoded JSON values (Python objects), tagged by their Python type.      *)
(***************************************************************************)
JNone == [t |-> "none"]
JBool(b) == [t |-> "bool", v |-> b]
JNum(n) == [t |-> "int", v |-> n]
JStr(s) == [t |-> "str", v |-> s]
JList(xs) == [t |-> "list", v |-> xs]
JDict(ps) == [t |-> "dict", v |-> ps]

IsStr(x) == x.t = "str"
IsList(x) == x.t = "list"
IsDict(x) == x.t = "dict"

NumVal(tk) == CASE tk = "0" -> 0 [] tk = "1" -> 1 [] tk = "7" -> 7

\* dict[key] = val on an insertion-ordered dict held as a sequence of pairs
DictSet(ps, key, val) ==
  IF \E i \in 1..Len(ps) : ps[i][1] = key
  THEN [i \in 1..Len(ps) |-> IF ps[i][1] = key THEN <<key, val>> ELSE ps[i]]
  ELSE Append(ps, <<key, val>>)

HasKey(d, key) == \E i \in 1..Len(d.v) : d.v[i][1] = key

\* d.get(key): the value, or None
Get(d, key) ==
  IF HasKey(d, key)
  THEN d.v[CHOOSE i \in 1..Len(d.v) : d.v[i][1] = key][2]
  ELSE JNone

(***************************************************************************)
(* json.loads                                                              *)
(***************************************************************************)
Fail == [ok |-> FALSE]
Ok(val, next) == [ok |-> TRUE, val |-> val, pos |-> next]

RECURSIVE SkipWs(_, _)
SkipWs(s, i) == IF i <= Len(s) /\ s[i] \in WsTok THEN SkipWs(s, i + 1) ELSE i

RECURSIVE ScanString(_, _, _)
ScanString(s, i, acc) ==
  IF i > Len(s) THEN Fail
  ELSE IF s[i] = DQ THEN Ok(JStr(acc), i + 1)
  ELSE IF s[i] = EscQ THEN ScanString(s, i + 1, Append(acc, DQ))
  ELSE IF s[i] = "\n" THEN Fail
  ELSE ScanString(s, i + 1, Append(acc, s[i]))

RECURSIVE ParseValue(_, _)
RECURSIVE ParseElems(_, _, _)
RECURSIVE ParseMembers(_, _, _)

ParseValue(s, i) ==
  IF i > Len(s) THEN Fail
  ELSE IF s[i] = DQ THEN ScanString(s, i + 1, <<>>)
  ELSE IF s[i] = "[" THEN
    LET j == SkipWs(s, i + 1)
    IN IF j <= Len(s) /\ s[j] = "]" THEN Ok(JList(<<>>), j + 1)
       ELSE ParseElems(s, j, <<>>)
  ELSE IF s[i] = "{" THEN
    LET j == SkipWs(s, i + 1)
    IN IF j <= Len(s) /\ s[j] = "}" THEN Ok(JDict(<<>>), j + 1)
       ELSE ParseMembers(s, j, <<>>)
  ELSE IF s[i] = "null" THEN Ok(JNone, i + 1)
  ELSE IF s[i] = "true" THEN Ok(JBool(TRUE), i + 1)
  ELSE IF s[i] = "false" THEN Ok(JBool(FALSE), i + 1)
  ELSE IF s[i] \in NumTok THEN Ok(JNum(NumVal(s[i])), i + 1)
  ELSE Fail

ParseElems(s, i, acc) ==
  LET r == ParseValue(s, i)
  IN IF ~r.ok THEN Fail
     ELSE LET j == SkipWs(s, r.pos)
          IN IF j > Len(s) THEN Fail
             ELSE IF s[j] = "]" THEN Ok(JList(Append(acc, r.val)), j + 1)
             ELSE IF s[j] = "," THEN ParseElems(s, SkipWs(s, j + 1), Append(acc, r.val))
             ELSE Fail

ParseMembers(s, i, acc) ==
  IF i > Len(s) \/ s[i] # DQ THEN Fail
  ELSE LET k == ScanString(s, i + 1, <<>>)
       IN IF ~k.ok THEN Fail
          ELSE LET c == SkipWs(s, k.pos)
               IN IF c > Len(s) \/ s[c] # ":" THEN Fail
                  ELSE LET r == ParseValue(s, SkipWs(s, c + 1))
                       IN IF ~r.ok THEN Fail
                          ELSE LET j == SkipWs(s, r.pos)
                                   acc2 == DictSet(acc, k.val.v, r.val)
                               IN IF j > Len(s) THEN Fail
                                  ELSE IF s[j] = "}" THEN Ok(JDict(acc2), j + 1)
                                  ELSE IF s[j] = "," THEN ParseMembers(s, SkipWs(s, j + 1), acc2)
                                  ELSE Fail

\* the value r decoded from the start of s is the result when only white
\* space follows it ("Extra data" otherwise)
WholeText(s, r) ==
  IF ~r.ok THEN Fail
  ELSE IF SkipWs(s, r.pos) = Len(s) + 1 THEN Ok(r.val, r.pos) ELSE Fail

\* json.loads(s): [ok |-> FALSE] stands for the JSONDecodeError
json_loads(s) == WholeText(s, ParseValue(s, SkipWs(s, 1)))

(***************************************************************************)
(* The textual repairs of try_load_json                                    *)
(***************************************************************************)
RECURSIVE LStrip(_)
LStrip(s) == IF s # <<>> /\ Head(s) \in WsTok THEN LStrip(Tail(s)) ELSE s

RECURSIVE RStrip(_)
RStrip(s) ==
  IF s # <<>> /\ s[Len(s)] \in WsTok THEN RStrip(SubSeq(s, 1, Len(s) - 1)) ELSE s

\* str.strip()
Strip(s) == RStrip(LStrip(s))

\* the first re.sub: a leading fence marker, an optional word json and white
\* space after it; white space and a fence marker at the very end
StripFences(s) ==
  LET a == IF s # <<>> /\ s[1] = Fence
           THEN LET rest == Tail(s)
                IN LStrip(IF rest # <<>> /\ rest[1] = "json" THEN Tail(rest) ELSE rest)
           ELSE s
  IN IF a # <<>> /\ a[Len(a)] = Fence THEN RStrip(SubSeq(a, 1, Len(a) - 1)) ELSE a

\* the token after position i that is not white space is a closing bracket
ClosesNext(s, i) ==
  LET j == SkipWs(s, i + 1) IN j <= Len(s) /\ s[j] \in {"}", "]"}

RECURSIVE DropTrailingCommasIn(_, _, _)
\* positions lo..hi of s without the commas that a closing bracket follows
DropTrailingCommasIn(s, lo, hi) ==
  IF lo > hi THEN <<>>
  ELSE IF lo = hi THEN IF s[lo] = "," /\ ClosesNext(s, lo) THEN <<>> ELSE <<s[lo]>>
  ELSE LET mid == (lo + hi) \div 2
       IN DropTrailingCommasIn(s, lo, mid) \o DropTrailingCommasIn(s, mid + 1, hi)

\* the second re.sub: a comma before optional white space and a closing bracket
DropTrailingCommas(s) == DropTrailingCommasIn(s, 1, Len(s))

RECURSIVE IdentEnd(_, _)
\* last position of the run of identifier characters that starts at i
IdentEnd(s, i) ==
  IF i + 1 <= Len(s) /\ IsIdentChar(s[i + 1]) THEN IdentEnd(s, i + 1) ELSE i

\* a match of the third pattern starts at i: an opening brace or a comma,
\* optional white space, an identifier, optional white space, a colon
BareKeyAt(s, i) ==
  /\ s[i] \in {"{", ","}
  /\ LET b == SkipWs(s, i + 1)
     IN /\ b <= Len(s)
        /\ IsIdentStart(s[b])
        /\ LET c == SkipWs(s, IdentEnd(s, b) + 1) IN c <= Len(s) /\ s[c] = ":"

\* the replacement of the match that starts at i, and the position of its colon
BareKeyQuoted(s, i) ==
  LET b == SkipWs(s, i + 1)
      e == IdentEnd(s, b)
  IN <<s[i], " ", DQ>> \o SubSeq(s, b, e) \o <<DQ, ":">>
BareKeyColon(s, i) == SkipWs(s, IdentEnd(s, SkipWs(s, i + 1)) + 1)

RECURSIVE BackToDelim(_, _)
\* the brace or comma that only white space and identifier characters
\* separate from position i + 1, or 0
BackToDelim(s, i) ==
  IF i < 1 THEN 0
  ELSE IF s[i] \in {"{", ","} THEN i
  ELSE IF s[i] \in WsTok \/ IsIdentChar(s[i]) THEN BackToDelim(s, i - 1)
  ELSE 0

\* position i lies inside a match that starts before it; matches cannot
\* overlap, since no brace or comma lies between a match's start and its colon
InBareKey(s, i) ==
  /\ s[i] \in WsTok \/ IsIdentChar(s[i]) \/ s[i] = ":"
  /\ LET j == BackToDelim(s, i - 1)
     IN j > 0 /\ BareKeyAt(s, j) /\ i <= BareKeyColon(s, j)

RECURSIVE QuoteBareKeysIn(_, _, _)
QuoteBareKeysIn(s, lo, hi) ==
  IF lo > hi THEN <<>>
  ELSE IF lo = hi
       THEN IF BareKeyAt(s, lo) THEN BareKeyQuoted(s, lo)
            ELSE IF InBareKey(s, lo) THEN <<>>
            ELSE <<s[lo]>>
  ELSE LET mid == (lo + hi) \div 2
       IN QuoteBareKeysIn(s, lo, mid) \o QuoteBareKeysIn(s, mid + 1, hi)

\* the third re.sub: an identifier between an opening brace or comma and a
\* colon is replaced by a space and the identifier in double quotes
QuoteBareKeys(s) == QuoteBareKeysIn(s, 1, Len(s))

\* the string handed to the second json.loads
Repaired(s) == QuoteBareKeys(DropTrailingCommas(StripFences(Strip(s))))

\* lines 12-15: the outcome of the second json.loads
SecondLoad(r2) ==
  IF r2.ok THEN [data |-> r2.val, err |-> FALSE, repaired |-> TRUE]
  ELSE [data |-> JNone, err |-> TRUE, repaired |-> TRUE]

\* lines 4-7: the outcome of the first json.loads, r1, returned when it
\* succeeded
FirstLoad(s, r1) ==
  IF r1.ok THEN [data |-> r1.val, err |-> FALSE, repaired |-> FALSE]
  ELSE SecondLoad(json_loads(Repaired(s)))

\* try_load_json(s): the pair (data, err); err is kept as a flag
try_load_json(s) == FirstLoad(s, json_loads(s))

(***************************************************************************)
(* Python strings, truth values and str()/repr()                           *)
(***************************************************************************)
\* a string constant of the code made of one word
W(word) == JStr(<<word>>)
EmptyStr == JStr(<<>>)

\* LongTok stands for a run of 180 letters; any other token of a value counts
\* as one character
LongTok == "<long>"
ShortAnswerLimit == 180
TokLen(tk) == IF tk = LongTok THEN ShortAnswerLimit ELSE 1

RECURSIVE CharLen(_)
\* len(s)
CharLen(s) == IF s = <<>> THEN 0 ELSE TokLen(Head(s)) + CharLen(Tail(s))

\* bool(x)
Truthy(x) ==
  CASE x.t = "none" -> FALSE
    [] x.t = "bool" -> x.v
    [] x.t = "int" -> x.v # 0
    [] OTHER -> x.v # <<>>

\* a or b
Or(a, b) == IF Truthy(a) THEN a ELSE b

NumTokOf(n) == CASE n = 0 -> "0" [] n = 1 -> "1" [] n = 7 -> "7"

RECURSIVE Repr(_)
RECURSIVE ReprItems(_)
RECURSIVE ReprPairs(_)
\* repr(x)
Repr(x) ==
  CASE x.t = "none" -> <<"None">>
    [] x.t = "bool" -> IF x.v THEN <<"True">> ELSE <<"False">>
    [] x.t = "int" -> <<NumTokOf(x.v)>>
    [] x.t = "str" ->
         IF (\E i \in 1..Len(x.v) : x.v[i] = SQ) /\ ~(\E i \in 1..Len(x.v) : x.v[i] = DQ)
         THEN <<DQ>> \o x.v \o <<DQ>> ELSE <<SQ>> \o x.v \o <<SQ>>
    [] x.t = "list" -> <<"[">> \o ReprItems(x.v) \o <<"]">>
    [] x.t = "dict" -> <<"{">> \o ReprPairs(x.v) \o <<"}">>

ReprItems(xs) ==
  IF xs = <<>> THEN <<>>
  ELSE IF Len(xs) = 1 THEN Repr(xs[1])
  ELSE Repr(xs[1]) \o <<",", " ">> \o ReprItems(Tail(xs))

ReprPairs(ps) ==
  IF ps = <<>> THEN <<>>
  ELSE LET one == Repr(JStr(ps[1][1])) \o <<":", " ">> \o Repr(ps[1][2])
       IN IF Len(ps) = 1 THEN one ELSE one \o <<",", " ">> \o ReprPairs(Tail(ps))

\* str(x)
PyStr(x) == IF x.t = "str" THEN x.v ELSE Repr(x)

LowerTok(tk) ==
  CASE tk = "Paris" -> "paris"
    [] tk = "PARIS" -> "paris"
    [] tk = "London" -> "london"
    [] tk = "Option" -> "option"
    [] tk = "Correct" -> "correct"
    [] tk = "Answer" -> "answer"
    [] tk = "Why" -> "why"
    [] tk = "True" -> "true"
    [] tk = "False" -> "false"
    [] tk = "Yes" -> "yes"
    [] tk = "None" -> "none"
    [] tk = "Hard" -> "hard"
    [] tk = "Easy" -> "easy"
    [] tk = "MCQ" -> "mcq"
    [] tk = "Key" -> "key"
    [] OTHER -> tk

\* str.lower()
Lower(s) == [i \in 1..Len(s) |-> LowerTok(s[i])]

(***************************************************************************)
(* QuestionGenerator: key and option normalisation                         *)
(***************************************************************************)
RECURSIVE RemoveSmartQuotes(_)
RemoveSmartQuotes(s) ==
  IF s = <<>> THEN <<>>
  ELSE IF Head(s) \in SmartQuoteTok THEN RemoveSmartQuotes(Tail(s))
  ELSE <<Head(s)>> \o RemoveSmartQuotes(Tail(s))

\* t[1:-1].strip() when t starts and ends with the quote character q
Unwrap(s, q) ==
  IF Len(s) >= 2 /\ s[1] = q /\ s[Len(s)] = q
  THEN Strip(SubSeq(s, 2, Len(s) - 1)) ELSE s

_strip_all_quotes_spaces(x) ==
  IF x.t = "none" THEN <<>>
  ELSE Strip(RemoveSmartQuotes(Unwrap(Unwrap(Strip(PyStr(x)), DQ), SQ)))

RECURSIVE CollapseSpaces(_)
\* " ".join(t.split())
CollapseSpaces(s) ==
  LET a == LStrip(s)
  IN IF a = <<>> THEN <<>>
     ELSE IF Len(a) >= 2 /\ a[2] \in WsTok
          THEN LET rest == CollapseSpaces(Tail(Tail(a)))
               IN IF rest = <<>> THEN <<a[1]>> ELSE <<a[1], " ">> \o rest
          ELSE <<a[1]>> \o CollapseSpaces(Tail(a))

\* the recognised words that the text of a token contains
WordsIn(tk) ==
  CASE tk \in {"option", "options", "optiontext"} -> {"option"}
    [] tk \in {"correct", "is_correct", "iscorrect"} -> {"correct"}
    [] tk \in {"answer", "answers"} -> {"answer"}
    [] tk \in {"explanation"} -> {"explanation"}
    [] tk \in {"reason", "reasoning"} -> {"reason"}
    [] tk \in {"why"} -> {"why"}
    [] OTHER -> {}

\* word in t
Contains(s, word) == \E i \in 1..Len(s) : word \in WordsIn(s[i])

\* t.replace("_", " ")
UnderscoresToSpaces(t) == [i \in 1..Len(t) |-> IF t[i] = "_" THEN " " ELSE t[i]]

\* "canonicalize by containment"
Canonical(t) ==
  IF Contains(t, "option") THEN <<"option">>
  ELSE IF Contains(t, "correct") \/ Contains(t, "answer") THEN <<"is_correct">>
  ELSE IF Contains(t, "explanation") \/ Contains(t, "reason") \/ Contains(t, "why")
       THEN <<"explanation">>
  ELSE IF t \in {<<"label">>, <<"name">>, <<"value">>, <<"choice">>, <<"text">>}
       THEN <<"option">>
  ELSE t

_clean_key(k) ==
  Canonical(UnderscoresToSpaces(CollapseSpaces(Lower(_strip_all_quotes_spaces(k)))))

_coerce_bool(x) ==
  IF x.t = "bool" THEN x.v
  ELSE Lower(Strip(PyStr(x))) \in {<<"1">>, <<"true">>, <<"yes">>, <<"y">>, <<"correct">>}

OptTextKeys == <<"option", "text", "label", "value", "name", "choice">>

_opt_text_from_dict(od) ==
  IF \E n \in 1..Len(OptTextKeys) : Truthy(Get(od, <<OptTextKeys[n]>>))
  THEN LET n == CHOOSE m \in 1..Len(OptTextKeys) :
                  /\ Truthy(Get(od, <<OptTextKeys[m]>>))
                  /\ \A l \in 1..(m - 1) : ~Truthy(Get(od, <<OptTextKeys[l]>>))
       IN _strip_all_quotes_spaces(Get(od, <<OptTextKeys[n]>>))
  ELSE IF \E i \in 1..Len(od.v) : Truthy(od.v[i][2])
  THEN LET i == CHOOSE j \in 1..Len(od.v) :
                  Truthy(od.v[j][2]) /\ \A l \in 1..(j - 1) : ~Truthy(od.v[l][2])
       IN _strip_all_quotes_spaces(od.v[i][2])
  ELSE <<>>

\* "don't clobber a meaningful 'option' with empty text": norm_dict[ck] = v
\* when ck is new, or is "option" and the option kept so far is empty
KeepFirst(norm, ck, v) ==
  IF ~HasKey(JDict(norm), ck)
     \/ (ck = <<"option">> /\ ~Truthy(Get(JDict(norm), <<"option">>)))
  THEN DictSet(norm, ck, v) ELSE norm

RECURSIVE CleanKeys(_, _)
\* the loop over item.items() that fills norm_dict
CleanKeys(ps, norm) ==
  IF ps = <<>> THEN norm
  ELSE CleanKeys(Tail(ps), KeepFirst(norm, _clean_key(JStr(ps[1][1])), ps[1][2]))

\* a or b for two texts
OrText(a, b) == IF a # <<>> THEN a ELSE b

\* d.get(key, default)
GetOr(d, key, default) == IF HasKey(d, key) THEN Get(d, key) ELSE default

\* "Case 2: dict with messy keys", after the loop that filled norm_dict
OptionOfDict(item, norm_dict) ==
  [option |-> OrText(OrText(_opt_text_from_dict(norm_dict),
                            _strip_all_quotes_spaces(JStr(PyStr(item)))),
                     <<"Option">>),
   is_correct |-> _coerce_bool(GetOr(norm_dict, <<"is_correct">>, JBool(FALSE))),
   explanation |-> Or(Get(norm_dict, <<"explanation">>), JNone)]

\* one element of the options list turned into an option: a string and a
\* value of any other type take the same form
OptionOf(item) ==
  IF item.t = "dict"
  THEN OptionOfDict(item, JDict(CleanKeys(item.v, <<>>)))
  ELSE [option |-> _strip_all_quotes_spaces(item), is_correct |-> FALSE, explanation |-> JNone]

\* KeepFirstCorrect without the else branch that clears the later options
KeepAllCorrect(opts) == opts

\* "if multiple marked correct, keep the first only"
KeepFirstCorrect(opts) ==
  [i \in 1..Len(opts) |->
     [opts[i] EXCEPT !.is_correct = opts[i].is_correct
                                    /\ \A j \in 1..(i - 1) : ~opts[j].is_correct]]

\* MarkByAnswer without the search for the answer text
MarkFirst(opts, answer_text) == [opts EXCEPT ![1].is_correct = TRUE]

\* mark the first option whose text is the answer text, else the first option
MarkByAnswer(opts, answer_text) ==
  LET Match(i) == Lower(_strip_all_quotes_spaces(JStr(opts[i].option))) = Lower(answer_text)
  IN IF answer_text # <<>> /\ \E i \in 1..Len(opts) : Match(i)
     THEN LET m == CHOOSE i \in 1..Len(opts) : Match(i) /\ \A j \in 1..(i - 1) : ~Match(j)
          IN [opts EXCEPT ![m].is_correct = TRUE]
     ELSE [opts EXCEPT ![1].is_correct = TRUE]

\* the loop over opts, which runs only when opts is a list
OptionsOfList(opts) ==
  IF opts.t = "list" THEN [i \in 1..Len(opts.v) |-> OptionOf(opts.v[i])] ELSE <<>>

\* "Enforce exactly one correct"
EnforceOneCorrect(normalized, answer_text) ==
  IF normalized = <<>> THEN <<>>
  ELSE IF \E i \in 1..Len(normalized) : normalized[i].is_correct
       THEN KeepFirstCorrect(normalized)
       ELSE MarkByAnswer(normalized, answer_text)

\* the list of options for the raw record q; <<>> is the empty list
_normalize_options(q) ==
  IF ~Truthy(Get(q, <<"options">>)) THEN <<>>
  ELSE EnforceOneCorrect(
         OptionsOfList(Get(q, <<"options">>)),
         _strip_all_quotes_spaces(Or(Or(Get(q, <<"answer">>), Get(q, <<"correct">>)), EmptyStr)))

(***************************************************************************)
(* QuestionGenerator: record and envelope normalisation                    *)
(***************************************************************************)
\* q[key] = val for a dict value q and a one-word key
Put(q, key, val) == JDict(DictSet(q.v, <<key>>, val))
Field(q, key) == Get(q, <<key>>)

\* d.setdefault(key, val)
SetDefault(d, key, val) == IF HasKey(d, <<key>>) THEN d ELSE Put(d, key, val)

\* an operation that raised
Raised == [ok |-> FALSE]
Returned(val) == [ok |-> TRUE, val |-> val]

\* _infer_type with the test for code put before the test for options
InferCodeFirst(q) ==
  IF Truthy(Field(q, "type")) THEN Field(q, "type")
  ELSE IF Truthy(Field(q, "code")) THEN W("coding")
  ELSE IF Truthy(Field(q, "options")) THEN W("mcq")
  ELSE IF Truthy(Field(q, "answer"))
       THEN IF CharLen(PyStr(Field(q, "answer"))) < ShortAnswerLimit
            THEN W("short") ELSE W("theory")
  ELSE W("theory")

_infer_type(q) ==
  IF Truthy(Field(q, "type")) THEN Field(q, "type")
  ELSE IF Truthy(Field(q, "options")) THEN W("mcq")
  ELSE IF Truthy(Field(q, "code")) THEN W("coding")
  ELSE IF Truthy(Field(q, "answer"))
       THEN IF CharLen(PyStr(Field(q, "answer"))) < ShortAnswerLimit
            THEN W("short") ELSE W("theory")
  ELSE W("theory")

\* "Map alternate keys to text"
MapQuestionToText(q) ==
  IF ~Truthy(Field(q, "text")) /\ Truthy(Field(q, "question"))
  THEN Put(q, "text", Field(q, "question")) ELSE q

\* q["type"] = self._infer_type(q)
SetType(q) == Put(q, "type", _infer_type(q))

\* if "is_generic" not in q: q["is_generic"] = False
SetIsGeneric(q) == SetDefault(q, "is_generic", JBool(FALSE))

\* "if options ended up empty, unset to None"
ListOrNone(o) == IF o = <<>> THEN JNone ELSE JList(o)

\* "Normalize options for MCQ (even if type not set but options present)"
SetOptions(q) ==
  IF Field(q, "type") = W("mcq") \/ Truthy(Field(q, "options"))
  THEN Put(q, "options", ListOrNone(_normalize_options(q)))
  ELSE Put(q, "options", Or(Field(q, "options"), JNone))

\* if not q.get("text"): q["text"] = prompt or title or "Question"
SetText(q) ==
  IF Truthy(Field(q, "text")) THEN q
  ELSE Put(q, "text", Or(Or(Field(q, "prompt"), Field(q, "title")), W("Question")))

\* SetId without its test: every record takes a generated id
SetIdAlways(q, uid) == Put(q, "id", JStr(<<"fresh">>))

\* if not q.get("id"): q["id"] = uuid.uuid4().hex[:8]
SetId(q, uid) == IF Truthy(Field(q, "id")) THEN q ELSE Put(q, "id", JStr(<<uid>>))

\* line 246 and what follows it: d is the value whose lower() is taken, and
\* only a string has that method
SetDefaults(q, d, uid) ==
  IF d.t # "str" THEN Raised
  ELSE Returned(SetId(SetText(SetOptions(SetIsGeneric(SetType(
         Put(q, "difficulty", JStr(Lower(d.v))))))), uid))

\* the record after "Map alternate keys to text" goes through the defaults
WithDefaults(q, fallback_difficulty, uid) ==
  SetDefaults(q, Or(Or(Field(q, "difficulty"), fallback_difficulty), W("medium")), uid)

\* uid is the value of uuid.uuid4().hex[:8] for this record
_normalize_question(q0, fallback_difficulty, uid) ==
  WithDefaults(MapQuestionToText(q0), fallback_difficulty, uid)

\* the elements that "for q in qs" visits; Raised when qs is not iterable
Iterate(qs) ==
  CASE qs.t = "list" -> Returned(qs.v)
    [] qs.t = "str" -> Returned([i \in 1..Len(qs.v) |-> JStr(<<qs.v[i]>>)])
    [] qs.t = "dict" -> Returned([i \in 1..Len(qs.v) |-> JStr(qs.v[i][1])])
    [] OTHER -> Raised

\* WrapList with the literal "medium" in place of the difficulty of the request
WrapListMedium(data, dflt) ==
  IF data.t = "list"
  THEN JDict(<< <<<<"topic">>, W("General")>>, <<<<"context">>, JList(<<>>)>>,
                <<<<"difficulty">>, W("medium")>>, <<<<"question_types">>, JList(<<>>)>>,
                <<<<"questions">>, data>> >>)
  ELSE data

\* lines 270-277: a list becomes the questions of a fresh envelope
WrapList(data, dflt) ==
  IF data.t = "list"
  THEN JDict(<< <<<<"topic">>, W("General")>>, <<<<"context">>, JList(<<>>)>>,
                <<<<"difficulty">>, dflt>>, <<<<"question_types">>, JList(<<>>)>>,
                <<<<"questions">>, data>> >>)
  ELSE data

\* lines 282-289: "Required top-level defaults BEFORE validation"
TopLevelDefaults(data, dflt) ==
  SetDefault(SetDefault(SetDefault(SetDefault(SetDefault(SetDefault(
    SetDefault(SetDefault(data, "topic", W("General")),
    "context", JList(<<>>)), "difficulty", dflt), "question_types", JList(<<>>)),
    "total_questions", JNum(0)), "generic_count", JNum(0)),
    "practical_count", JNum(0)), "generation_time", JNum(0))

\* lines 294-298: the record handed to _normalize_question for one element
AsRecord(q) == IF q.t = "dict" THEN q ELSE JDict(<< <<<<"text">>, JStr(PyStr(q))>> >>)

\* data["questions"] = norm_qs, unless one _normalize_question raised
StoreQuestions(data, norm_qs) ==
  IF \E i \in 1..Len(norm_qs) : ~norm_qs[i].ok THEN Raised
  ELSE Returned(Put(data, "questions", JList([i \in 1..Len(norm_qs) |-> norm_qs[i].val])))

\* the loop "for q in qs", it being the elements it visits
NormalizeEach(data, it, uu) ==
  IF ~it.ok THEN Raised
  ELSE StoreQuestions(data,
         [i \in 1..Len(it.val) |->
            _normalize_question(AsRecord(it.val[i]), Field(data, "difficulty"), uu[i])])

\* lines 291-299: "Normalize questions"
NormalizeQuestions(data, uu) ==
  NormalizeEach(data, Iterate(Or(Field(data, "questions"), JList(<<>>))), uu)

\* lines 278-299, data being a dict or the envelope made of a list
NormalizeDict(data, dflt, uu) ==
  IF data.t # "dict" THEN Raised
  ELSE NormalizeQuestions(TopLevelDefaults(data, dflt), uu)

\* difficulty is the difficulty of the request; uu[i] is the uuid drawn for
\* the i-th record
_normalize_top_level(data0, difficulty, uu) ==
  NormalizeDict(WrapList(data0, Or(difficulty, W("medium"))), Or(difficulty, W("medium")), uu)

\* a record that still had no id would take a further uuid; after
\* _normalize_top_level every record has one, so the loop assigns none
_ensure_ids(payload, uu) ==
  LET qs == Or(Field(payload, "questions"), JList(<<>>))
  IN Put(payload, "questions",
         JList([i \in 1..Len(qs.v) |->
                  IF Truthy(Field(qs.v[i], "id")) THEN qs.v[i]
                  ELSE Put(qs.v[i], "id", JStr(<<uu[i]>>))]))

(***************************************************************************)
(* modules/schemas.py: validation by pydantic (lax mode) and model_dump    *)
(***************************************************************************)
QuestionType == {"mcq", "coding", "short", "theory"}
DifficultyLiteral == {"easy", "medium", "hard"}
BoolTrueStr == {"1", "on", "t", "true", "y", "yes"}
BoolFalseStr == {"0", "off", "f", "false", "n", "no"}

IsWordIn(x, words) == x.t = "str" /\ Len(x.v) = 1 /\ x.v[1] \in words
IsOptStr(x) == x.t \in {"none", "str"}
IsListOf(x, P(_)) == x.t = "list" /\ \A i \in 1..Len(x.v) : P(x.v[i])
IsStrValue(x) == x.t = "str"

\* a value pydantic accepts for a bool field
BoolOk(x) ==
  \/ x.t = "bool"
  \/ x.t = "int" /\ x.v \in {0, 1}
  \/ x.t = "str" /\ Len(x.v) = 1 /\ LowerTok(x.v[1]) \in BoolTrueStr \cup BoolFalseStr
BoolOf(x) ==
  CASE x.t = "bool" -> x.v
    [] x.t = "int" -> x.v = 1
    [] OTHER -> LowerTok(x.v[1]) \in BoolTrueStr

\* a value pydantic accepts for an int or float field
NumberOk(x) ==
  \/ x.t \in {"int", "bool"}
  \/ x.t = "str" /\ Len(x.v) = 1 /\ x.v[1] \in NumTok
NumberOf(x) ==
  CASE x.t = "int" -> x.v
    [] x.t = "bool" -> IF x.v THEN 1 ELSE 0
    [] OTHER -> NumVal(x.v[1])

\* class MCQOption; the options of a normalised record are already options
MCQOptionOk(o) == IsOptStr(o.explanation)

OptionsOk(x) == x.t = "none" \/ (x.t = "list" /\ \A i \in 1..Len(x.v) : MCQOptionOk(x.v[i]))

\* class Question
QuestionOk(q) ==
  /\ q.t = "dict"
  /\ HasKey(q, <<"id">>) /\ Field(q, "id").t = "str"
  /\ HasKey(q, <<"type">>) /\ IsWordIn(Field(q, "type"), QuestionType)
  /\ HasKey(q, <<"text">>) /\ Field(q, "text").t = "str"
  /\ HasKey(q, <<"difficulty">>) /\ IsWordIn(Field(q, "difficulty"), DifficultyLiteral)
  /\ (HasKey(q, <<"is_generic">>) => BoolOk(Field(q, "is_generic")))
  /\ OptionsOk(Field(q, "options"))
  /\ IsOptStr(Field(q, "answer"))
  /\ IsOptStr(Field(q, "explanation"))
  /\ IsOptStr(Field(q, "code"))

QuestionDump(q) ==
  [id |-> Field(q, "id").v,
   type |-> Field(q, "type").v[1],
   text |-> Field(q, "text").v,
   difficulty |-> Field(q, "difficulty").v[1],
   is_generic |-> IF HasKey(q, <<"is_generic">>) THEN BoolOf(Field(q, "is_generic")) ELSE FALSE,
   options |-> Field(q, "options"),
   answer |-> Field(q, "answer"),
   explanation |-> Field(q, "explanation"),
   code |-> Field(q, "code")]

\* class GenerationResult
GenerationResultOk(d) ==
  /\ d.t = "dict"
  /\ HasKey(d, <<"topic">>) /\ Field(d, "topic").t = "str"
  /\ HasKey(d, <<"context">>) /\ IsListOf(Field(d, "context"), IsStrValue)
  /\ HasKey(d, <<"difficulty">>) /\ Field(d, "difficulty").t = "str"
  /\ HasKey(d, <<"question_types">>)
  /\ Field(d, "question_types").t = "list"
  /\ \A i \in 1..Len(Field(d, "question_types").v) :
        IsWordIn(Field(d, "question_types").v[i], QuestionType)
  /\ HasKey(d, <<"total_questions">>) /\ NumberOk(Field(d, "total_questions"))
  /\ HasKey(d, <<"generic_count">>) /\ NumberOk(Field(d, "generic_count"))
  /\ HasKey(d, <<"practical_count">>) /\ NumberOk(Field(d, "practical_count"))
  /\ HasKey(d, <<"generation_time">>) /\ NumberOk(Field(d, "generation_time"))
  /\ HasKey(d, <<"questions">>) /\ IsListOf(Field(d, "questions"), QuestionOk)

\* GenerationResult.model_validate(data).model_dump()
model_validate(d) ==
  IF ~GenerationResultOk(d) THEN Raised
  ELSE Returned(
    [topic |-> Field(d, "topic").v,
     context |-> [i \in 1..Len(Field(d, "context").v) |-> Field(d, "context").v[i].v],
     difficulty |-> Field(d, "difficulty").v,
     question_types |-> [i \in 1..Len(Field(d, "question_types").v) |->
                           Field(d, "question_types").v[i].v[1]],
     total_questions |-> NumberOf(Field(d, "total_questions")),
     generic_count |-> NumberOf(Field(d, "generic_count")),
     practical_count |-> NumberOf(Field(d, "practical_count")),
     questions |-> [i \in 1..Len(Field(d, "questions").v) |->
                      QuestionDump(Field(d, "questions").v[i])]])

\* line 309: the dump of the validated model, v being what model_validate
\* gave
DumpValidated(v) ==
  IF ~v.ok THEN [ok |-> FALSE, stage |-> "validate"]
  ELSE [ok |-> TRUE, stage |-> "validated", payload |-> v.val]

\* lines 307-309, n being what _normalize_top_level gave
ValidateNormalized(n, uu) ==
  IF ~n.ok THEN [ok |-> FALSE, stage |-> "normalize"]
  ELSE DumpValidated(model_validate(_ensure_ids(n.val, uu)))

\* _parse_validate after its first line, ld being the pair try_load_json
\* returned: the stage that raised, or the payload
ValidateLoaded(ld, difficulty, uu) ==
  IF ld.data = JNone THEN [ok |-> FALSE, stage |-> "parse"]
  ELSE ValidateNormalized(_normalize_top_level(ld.data, difficulty, uu), uu)

_parse_validate(raw, difficulty, uu) == ValidateLoaded(try_load_json(raw), difficulty, uu)

(***************************************************************************)
(* str.format and the prompts                                              *)
(***************************************************************************)
Lit(name) == [kind |-> "lit", name |-> name]
Fld(name) == [kind |-> "field", name |-> name]

\* PROMPT_TEMPLATE: its replacement fields in order, literal text between them
PROMPT_TEMPLATE ==
  <<Fld("system"), Lit("TOPIC"), Fld("topic"), Lit("SUBTOPICS/CONTEXT"), Fld("context_str"),
    Lit("REQUIREMENTS - Total questions"), Fld("num_questions"),
    Lit("Generic vs Practical ratio"), Fld("generic_percentage"), Lit("% generic"),
    Fld("practical_percentage"), Lit("% practical - Difficulty"), Fld("difficulty"),
    Lit("Allowed types"), Fld("question_types"), Lit("Include answers/explanations"),
    Fld("include_answers"), Lit("MCQs ... Coding ... Return JSON ONLY.")>>

\* FIX_TEMPLATE: the braces of the MCQ rule open a replacement field whose
\* name is the text up to the colon;  {bad_snippet} is the second field
FIX_TEMPLATE ==
  <<Lit("You previously returned invalid JSON ... MCQs must have options as objects:"),
    Fld(" \"option\""), Lit("with exactly one true. - Include required fields ... Invalid sample (truncated):"),
    Fld("bad_snippet"), Lit("Now return the corrected JSON:")>>

\* template.format(**args): KeyError when a field is not a keyword argument
Format(template, args) ==
  IF \E i \in 1..Len(template) :
       template[i].kind = "field" /\ template[i].name \notin DOMAIN args
  THEN [ok |-> FALSE, exc |-> "KeyError",
        key |-> template[CHOOSE i \in 1..Len(template) :
                           /\ template[i].kind = "field" /\ template[i].name \notin DOMAIN args
                           /\ \A j \in 1..(i - 1) :
                                template[j].kind = "field" => template[j].name \in DOMAIN args].name]
  ELSE [ok |-> TRUE,
        val |-> [i \in 1..Len(template) |->
                   IF template[i].kind = "field" THEN args[template[i].name]
                   ELSE template[i].name]]

RECURSIVE CharLenIn(_, _, _)
\* len of the text at positions lo..hi of s
CharLenIn(s, lo, hi) ==
  IF lo > hi THEN 0
  ELSE IF lo = hi THEN TokLen(s[lo])
  ELSE LET mid == (lo + hi) \div 2 IN CharLenIn(s, lo, mid) + CharLenIn(s, mid + 1, hi)

\* s[:n], to the last whole token
TakeChars(s, n) ==
  IF CharLenIn(s, 1, Len(s)) <= n THEN s
  ELSE LET fits == {k \in 0..Len(s) : CharLenIn(s, 1, k) <= n}
       IN SubSeq(s, 1, CHOOSE k \in fits : \A l \in fits : l <= k)

SnippetLimit == 800

RECURSIVE Join(_, _)
\* sep.join(xs) for a list of texts
Join(xs, sep) ==
  IF xs = <<>> THEN <<>>
  ELSE IF Len(xs) = 1 THEN xs[1]
  ELSE xs[1] \o sep \o Join(Tail(xs), sep)

RECURSIVE StrippedNonEmpty(_)
\* [c.strip() for c in context if c.strip()]
StrippedNonEmpty(xs) ==
  IF xs = <<>> THEN <<>>
  ELSE IF Strip(xs[1]) = <<>> THEN StrippedNonEmpty(Tail(xs))
  ELSE <<Strip(xs[1])>> \o StrippedNonEmpty(Tail(xs))

\* line 81: the context of the prompt
ContextStr(context) == OrText(Join(StrippedNonEmpty(context), <<",", " ">>), <<"(none)">>)

_build_prompt(req) ==
  Format(PROMPT_TEMPLATE,
         [system |-> "SYSTEM_INSTRUCTIONS", topic |-> Strip(req.topic),
          context_str |-> ContextStr(req.context),
          num_questions |-> req.num_questions, generic_percentage |-> req.generic_percentage,
          practical_percentage |-> 100 - req.generic_percentage,
          difficulty |-> req.difficulty_level,
          question_types |-> Join(req.question_types, <<",", " ">>),
          include_answers |-> req.include_answers])

\* the prompt of _repair_once(bad)
FixPrompt(bad) == Format(FIX_TEMPLATE, [bad_snippet |-> TakeChars(bad, SnippetLimit)])

(***************************************************************************)
(* The generative service: the texts it may return                         *)
(***************************************************************************)
MaxRecords == 2
MaxRequested == 3
Uuids == {"u1", "u2"}

KV(k, val) == << <<k>>, val >>

\* raw records as the service may write them
RecFull ==
  JDict(<<KV("id", W("q1")), KV("type", W("short")), KV("text", JStr(<<"What", "?">>)),
          KV("difficulty", W("easy")), KV("is_generic", JBool(TRUE)), KV("answer", W("A1"))>>)
RecBare == JDict(<<KV("question", JStr(<<"Q1", "?">>)), KV("answer", W("A1"))>>)
RecStrOptions ==
  JDict(<<KV("text", JStr(<<"Capital", "?">>)),
          KV("options", JList(<<W("Paris"), W("London")>>)), KV("answer", W("paris"))>>)
RecDictOptions ==
  JDict(<<KV("id", W("q2")), KV("type", W("mcq")), KV("text", W("Pick")),
          KV("is_generic", W("yes")),
          KV("options", JList(<<JDict(<<KV("option", W("Paris")), KV("is_correct", JBool(TRUE))>>),
                                JDict(<<KV("Option", W("London")), KV("correct", W("Yes"))>>)>>))>>)
RecBadType == JDict(<<KV("id", W("q3")), KV("type", W("essay")), KV("text", W("T"))>>)
RecBadDifficulty == JDict(<<KV("text", W("T")), KV("difficulty", JNum(7))>>)
RecCommaColon ==
  JDict(<<KV("id", W("q4")), KV("type", W("theory")), KV("is_generic", JBool(TRUE)),
          KV("text", JStr(<<"x", ",", " ", "y", ":", " ", "z">>))>>)

RecMcqNoOptions == JDict(<<KV("id", W("q5")), KV("type", W("mcq")), KV("text", W("Pick"))>>)

RecEmptyId == JDict(<<KV("id", EmptyStr), KV("text", W("T"))>>)

RawRecords == {RecFull, RecBare, RecStrOptions, RecDictOptions, RecBadType, RecBadDifficulty,
               RecCommaColon, RecMcqNoOptions, RecEmptyId, W("Plain")}

RecLists == UNION {[1..n -> RawRecords] : n \in 0..MaxRecords}

\* json text of a value, as a service that follows SYSTEM_INSTRUCTIONS writes
\* it: a space after the comma between the members of an object, none elsewhere
RECURSIVE Dumps(_)
RECURSIVE DumpItems(_)
RECURSIVE DumpPairs(_)
DumpStr(s) == <<DQ>> \o [i \in 1..Len(s) |-> IF s[i] = DQ THEN EscQ ELSE s[i]] \o <<DQ>>
Dumps(x) ==
  CASE x.t = "none" -> <<"null">>
    [] x.t = "bool" -> IF x.v THEN <<"true">> ELSE <<"false">>
    [] x.t = "int" -> <<NumTokOf(x.v)>>
    [] x.t = "str" -> DumpStr(x.v)
    [] x.t = "list" -> <<"[">> \o DumpItems(x.v) \o <<"]">>
    [] x.t = "dict" -> <<"{">> \o DumpPairs(x.v) \o <<"}">>
DumpItems(xs) ==
  IF xs = <<>> THEN <<>>
  ELSE IF Len(xs) = 1 THEN Dumps(xs[1])
  ELSE Dumps(xs[1]) \o <<",">> \o DumpItems(Tail(xs))
DumpPairs(ps) ==
  IF ps = <<>> THEN <<>>
  ELSE LET one == DumpStr(ps[1][1]) \o <<":">> \o Dumps(ps[1][2])
       IN IF Len(ps) = 1 THEN one ELSE one \o <<",", " ">> \o DumpPairs(Tail(ps))

EnvKinds == {"bare", "min", "full", "words"}
SpecialKinds == {"null", "number", "string", "prose", "empty"}
Wrappers == {"plain", "fenced", "comma", "fenced_comma", "prose", "around"}

\* the envelope of SYSTEM_INSTRUCTIONS with the total the service states
Envelope(total, recs) ==
  JDict(<<KV("topic", W("Topic")), KV("context", JList(<<W("ctx")>>)),
          KV("difficulty", W("Hard")), KV("question_types", JList(<<W("mcq")>>)),
          KV("total_questions", total), KV("generic_count", JNum(7)),
          KV("practical_count", JNum(0)), KV("generation_time", JNum(1)),
          KV("questions", JList(recs))>>)

\* the document the service means to send: a bare list, an envelope with only
\* the records, or the envelope of SYSTEM_INSTRUCTIONS with its own counts,
\* the total as a number or spelt out
DocOf(kind, recs) ==
  CASE kind = "bare" -> JList(recs)
    [] kind = "min" -> JDict(<<KV("questions", JList(recs))>>)
    [] kind = "full" -> Envelope(JNum(7), recs)
    [] kind = "words" -> Envelope(W("seven"), recs)
    [] kind = "null" -> JNone
    [] kind = "number" -> JNum(7)
    [] kind = "string" -> W("hello")

\* the text before the service wraps it
BodyOf(kind, recs) ==
  CASE kind = "prose" -> <<"Sorry", ",", " ", "no", " ", "questions", ".">>
    [] kind = "empty" -> <<>>
    [] OTHER -> Dumps(DocOf(kind, recs))

\* a comma put before the closing bracket that ends the text
WithTrailingComma(body) ==
  IF body # <<>> /\ body[Len(body)] \in {"}", "]"}
  THEN SubSeq(body, 1, Len(body) - 1) \o <<",", body[Len(body)]>>
  ELSE body

WithFence(body) == <<Fence, "json", "\n">> \o body \o <<"\n", Fence>>

Wrap(wrap, body) ==
  CASE wrap = "plain" -> body
    [] wrap = "fenced" -> WithFence(body)
    [] wrap = "comma" -> WithTrailingComma(body)
    [] wrap = "fenced_comma" -> WithFence(WithTrailingComma(body))
    [] wrap = "prose" -> <<"Here", " ", "it", " ", "is", ".", "\n">> \o body
    [] wrap = "around" ->
         <<"Here", " ", "it", " ", "is", ".", "\n">> \o body \o <<"\n", "Done", ".">>

\* every document as it is, and the documents of at most one record under
\* every wrapping
Samples ==
  [wrap : {"plain"}, kind : EnvKinds, recs : RecLists]
  \cup [wrap : Wrappers, kind : EnvKinds, recs : {r \in RecLists : Len(r) <= 1}]
  \cup [wrap : Wrappers, kind : SpecialKinds, recs : {<<>>}]

\* the text of a service response
TextOf(sample) == Wrap(sample.wrap, BodyOf(sample.kind, sample.recs))

Requests ==
  [topic : {<<"Python">>}, context : {<< <<"decorators">> >>}, num_questions : 1..MaxRequested,
   generic_percentage : {50}, difficulty_level : {<<"easy">>},
   question_types : {<< <<"mcq">>, <<"short">> >>}, include_answers : {"true"}]

\* the positions of the records of the decoded data that have no id, which
\* are the records uuid.uuid4() is called for
NeedIds(data) ==
  LET d == IF data.t = "list" THEN JDict(<<KV("questions", data)>>) ELSE data
      it == IF d.t = "dict" THEN Iterate(Or(Field(d, "questions"), JList(<<>>))) ELSE Raised
  IN IF ~it.ok THEN {}
     ELSE {i \in 1..Len(it.val) : it.val[i].t # "dict" \/ ~Truthy(Field(it.val[i], "id"))}

\* the values uuid.uuid4().hex[:8] may take for the records that need one
UuidDraws(data) == [NeedIds(data) -> Uuids]

(***************************************************************************)
(* QuestionGenerator.generate_questions: one call                          *)
(***************************************************************************)
VARIABLES
  pc,       \* position of the call: start, called, except, fill, returned, raised
  req,      \* the arguments of the call
  calls,    \* number of invocations of gemini.generate
  sent,     \* the prompts handed to gemini.generate, in order
  sample,   \* what the service wrote for the initial prompt
  raw,      \* the text the initial call returned
  loaded,   \* what try_load_json returned for raw
  first,    \* outcome of the first _parse_validate
  payload,  \* the validated payload
  result,   \* the dict returned to the caller
  exc,      \* the exception that left generate_questions
  optq,     \* a raw record handed to _normalize_options
  optout,   \* the list _normalize_options returned for optq
  generator, \* the attributes of the QuestionGenerator object
  threads,  \* the local variables of each of the calls that run concurrently
  service,  \* the local variables of a call of GeminiService.generate_questions
  session   \* st.session_state of app.py

vars == <<pc, req, calls, sent, sample, raw, loaded, first, payload, result, exc, optq, optout,
          generator, threads, service, session>>

\* no call of GeminiService.generate_questions, and no Streamlit session
NoService == [pc |-> "none"]
NoSession == [pc |-> "none"]

\* self.gemini = gemini_handler
NewGenerator == [gemini |-> "gemini_handler"]

NoValue == [ok |-> FALSE]
NoSample == [wrap |-> "none", kind |-> "none", recs |-> <<>>]
NoException == [type |-> "none", args |-> <<>>]

\* the exception _parse_validate raises at a stage; the arguments of an
\* exception are texts
StageError(stage) ==
  CASE stage = "parse" ->
         [type |-> "ValueError", args |-> << <<"Model did not return valid JSON. Parse error">> >>]
    [] stage = "normalize" -> [type |-> "Exception", args |-> << <<"normalization">> >>]
    [] stage = "validate" -> [type |-> "ValidationError", args |-> << <<"GenerationResult">> >>]

Init ==
  /\ pc = "start"
  /\ req \in Requests
  /\ calls = 0
  /\ sent = <<>>
  /\ sample = NoSample
  /\ raw = <<>>
  /\ loaded = NoValue
  /\ first = NoValue
  /\ payload = NoValue
  /\ result = NoValue
  /\ exc = NoException
  /\ optq = JNone
  /\ optout = <<>>
  /\ generator = NewGenerator
  /\ service = NoService
  /\ session = NoSession
  /\ threads = <<>>

\* lines 331-341: the prompt is built and the service answers with a text
InitialReturns ==
  /\ pc = "start"
  /\ _build_prompt(req).ok
  /\ \E s \in Samples :
       /\ sample' = s
       /\ raw' = TextOf(s)
  /\ calls' = calls + 1
  /\ sent' = Append(sent, "initial")
  /\ pc' = "called"
  /\ UNCHANGED <<service, session, generator, threads, req, loaded, first, payload, result, exc, optq, optout>>

\* InitialRaises with the call wrapped in a retry: the error is noted and the
\* call is issued again
InitialRaisesRetried ==
  /\ pc = "start"
  /\ calls < 3
  /\ calls' = calls + 1
  /\ sent' = Append(sent, "initial")
  /\ exc' = [type |-> "ServiceError", args |-> <<>>]
  /\ pc' = "start"
  /\ UNCHANGED <<service, session, generator, threads, req, sample, raw, loaded, first, payload, result, optq, optout>>

\* lines 338-341: gemini.generate raises; nothing catches it
InitialRaises ==
  /\ pc = "start"
  /\ _build_prompt(req).ok
  /\ calls' = calls + 1
  /\ sent' = Append(sent, "initial")
  /\ exc' = [type |-> "ServiceError", args |-> <<>>]
  /\ pc' = "raised"
  /\ UNCHANGED <<service, session, generator, threads, req, sample, raw, loaded, first, payload, result, optq, optout>>

\* line 345: payload is bound when the pass r returned, and the except block
\* is entered when it raised
BindPayload(r) ==
  /\ first' = r
  /\ payload' = IF r.ok THEN Returned(r.payload) ELSE NoValue
  /\ pc' = IF r.ok THEN "fill" ELSE "except"

\* _parse_validate(raw, difficulty_level), ld being what its first line
\* loaded; a uuid is drawn for every record that needs one
PassLoaded(ld) ==
  /\ loaded' = ld
  /\ \E uu \in UuidDraws(ld.data) :
       BindPayload(ValidateLoaded(ld, JStr(req.difficulty_level), uu))

\* lines 344-345: the try block
FirstPass ==
  /\ pc = "called"
  /\ PassLoaded(try_load_json(raw))
  /\ UNCHANGED <<service, session, generator, threads, req, calls, sent, sample, raw, result, exc, optq, optout>>

\* ExceptHandler as a loop: after a failed pass the service is asked again
\* and the answer goes through the try block again
ExceptHandlerRetry ==
  /\ pc = "except"
  /\ \E s \in {x \in Samples : x.kind \in SpecialKinds} :
       /\ sample' = s
       /\ raw' = TextOf(s)
  /\ calls' = calls + 1
  /\ sent' = Append(sent, "fix")
  /\ pc' = IF calls < 3 THEN "called" ELSE "raised"
  /\ exc' = IF calls < 3 THEN exc ELSE StageError(first.stage)
  /\ UNCHANGED <<service, session, generator, threads, req, loaded, first, payload, result, optq, optout>>

\* line 348: payload is bound when the second pass r returned, and its
\* exception leaves generate_questions when it raised
RebindPayload(r) ==
  /\ payload' = IF r.ok THEN Returned(r.payload) ELSE NoValue
  /\ exc' = IF r.ok THEN exc ELSE StageError(r.stage)
  /\ pc' = IF r.ok THEN "fill" ELSE "raised"

\* lines 346-348: the except block, _repair_once and the second _parse_validate
ExceptHandler ==
  /\ pc = "except"
  /\ LET fix == FixPrompt(raw)
     IN IF ~fix.ok
        THEN /\ exc' = [type |-> fix.exc, args |-> << <<fix.key>> >>]
             /\ pc' = "raised"
             /\ UNCHANGED <<calls, sent, payload>>
        ELSE /\ calls' = calls + 1
             /\ sent' = Append(sent, "fix")
             /\ \/ /\ exc' = [type |-> "ServiceError", args |-> <<>>]
                   /\ pc' = "raised"
                   /\ UNCHANGED payload
                \/ \E s \in Samples :
                   \E uu \in UuidDraws(try_load_json(TextOf(s)).data) :
                     RebindPayload(_parse_validate(TextOf(s), JStr(req.difficulty_level), uu))
  /\ UNCHANGED <<service, session, generator, threads, req, sample, raw, loaded, first, result, optq, optout>>

\* FillComputed without lines 352-354: the counts of the service are kept
FillTrusted ==
  /\ pc = "fill"
  /\ result' = payload
  /\ pc' = "returned"
  /\ UNCHANGED <<service, session, generator, threads, req, calls, sent, sample, raw, loaded, first, payload, exc, optq, optout>>

\* FillComputed on the first num_questions records only
FillTruncated ==
  /\ pc = "fill"
  /\ LET all == payload.val.questions
         qs == IF Len(all) > req.num_questions THEN SubSeq(all, 1, req.num_questions) ELSE all
         generic == Cardinality({i \in 1..Len(qs) : qs[i].is_generic})
     IN result' = Returned([payload.val EXCEPT !.questions = qs,
                                               !.total_questions = Len(qs),
                                               !.generic_count = generic,
                                               !.practical_count = Len(qs) - generic])
  /\ pc' = "returned"
  /\ UNCHANGED <<service, session, generator, threads, req, calls, sent, sample, raw, loaded, first, payload, exc, optq, optout>>

\* lines 350-355: the computed fields, and the return
FillComputed ==
  /\ pc = "fill"
  /\ LET qs == payload.val.questions
         generic == Cardinality({i \in 1..Len(qs) : qs[i].is_generic})
     IN result' = Returned([payload.val EXCEPT !.total_questions = Len(qs),
                                               !.generic_count = generic,
                                               !.practical_count = Len(qs) - generic])
  /\ pc' = "returned"
  /\ UNCHANGED <<service, session, generator, threads, req, calls, sent, sample, raw, loaded, first, payload, exc, optq, optout>>

Next == InitialReturns \/ InitialRaises \/ FirstPass \/ ExceptHandler \/ FillComputed

Spec == Init /\ [][Next]_vars

(***************************************************************************)
(* _normalize_options applied to raw records of every shape                *)
(***************************************************************************)
MaxOptions == 2

OptionItems ==
  {W("Paris"), W("london"), EmptyStr, JStr(<<DQ, "Paris", DQ>>), JNum(7), JNone, JBool(TRUE),
   JDict(<<>>),
   JDict(<<KV("option", W("Paris")), KV("is_correct", JBool(TRUE))>>),
   JDict(<<KV("text", W("London")), KV("correct", W("Yes"))>>),
   JDict(<<KV("label", W("Paris")), KV("answer", JNum(1)), KV("why", W("capital"))>>),
   JDict(<<KV("Option", EmptyStr), KV("is_correct", W("no"))>>),
   JDict(<< <<<<"correct", "_", "option">>, JBool(TRUE)>>, KV("value", W("London"))>>),
   JDict(<<KV("foo", W("London")), KV("is_correct", JNone)>>),
   JDict(<<KV("Key", W("London"))>>)}

OptionAnswers == {JNone, W("London"), W("PARIS"), JNum(7)}

OptionValues ==
  {JList(xs) : xs \in UNION {[1..n -> OptionItems] : n \in 0..MaxOptions}}
  \cup {JNone, W("Paris"), JDict(<<KV("a", W("Paris"))>>), JNum(7)}

\* records with an answer field, and records that name the answer in a
\* field "correct" instead
OptionRecords ==
  {JDict(<<KV("text", W("Pick")), KV("options", o), KV("answer", a)>>) :
     o \in OptionValues, a \in OptionAnswers}
  \cup {JDict(<<KV("text", W("Pick")), KV("options", o), KV("correct", W("London"))>>) :
          o \in OptionValues}

InitOptions ==
  /\ pc = "options"
  /\ req \in {r \in Requests : r.num_questions = 1 /\ r.difficulty_level = <<"easy">>}
  /\ calls = 0
  /\ sent = <<>>
  /\ sample = NoSample
  /\ raw = <<>>
  /\ loaded = NoValue
  /\ first = NoValue
  /\ payload = NoValue
  /\ result = NoValue
  /\ exc = NoException
  /\ optq \in OptionRecords
  /\ optout = <<>>
  /\ generator = NewGenerator
  /\ service = NoService
  /\ session = NoSession
  /\ threads = <<>>

NormalizeOptions ==
  /\ pc = "options"
  /\ optout' = _normalize_options(optq)
  /\ pc' = "options_done"
  /\ UNCHANGED <<service, session, generator, threads, req, calls, sent, sample, raw, loaded, first, payload, result, exc, optq>>

NextOptions == NormalizeOptions

SpecOptions == InitOptions /\ [][NextOptions]_vars

(***************************************************************************)
(* QuestionGenerator._normalize_question as a function of the raw record   *)
(***************************************************************************)
\* a field the raw record does not have
Absent == [t |-> "absent"]
Member(key, val) == IF val = Absent THEN <<>> ELSE <<KV(key, val)>>

\* raw records with every combination of the fields the type is inferred
\* from; the long answer has as many characters as the limit of _infer_type
RecordInputs ==
  {JDict(<<KV("text", W("T"))>> \o Member("type", ty) \o Member("options", op)
           \o Member("code", co) \o Member("answer", an) \o Member("difficulty", di)) :
     ty \in {Absent, EmptyStr, W("mcq"), W("short"), W("essay")},
     op \in {Absent, JList(<<>>), JList(<<W("Paris"), W("London")>>)},
     co \in {Absent, EmptyStr, W("x")},
     an \in {Absent, EmptyStr, W("A1"), JStr(<<LongTok>>)},
     di \in {Absent, W("Hard")}}

InitRecords ==
  /\ pc = "record"
  /\ req \in {r \in Requests : r.num_questions = 1}
  /\ calls = 0
  /\ sent = <<>>
  /\ sample = NoSample
  /\ raw = <<>>
  /\ loaded = NoValue
  /\ first = NoValue
  /\ payload = NoValue
  /\ result = NoValue
  /\ exc = NoException
  /\ optq \in RecordInputs
  /\ optout = <<>>
  /\ generator = NewGenerator
  /\ service = NoService
  /\ session = NoSession
  /\ threads = <<>>

\* _normalize_question(optq, difficulty_level): optout is the record returned
NormalizeRecord ==
  /\ pc = "record"
  /\ \E uid \in Uuids :
       optout' = _normalize_question(optq, JStr(req.difficulty_level), uid).val
  /\ pc' = "record_done"
  /\ UNCHANGED <<service, session, generator, threads, req, calls, sent, sample, raw, loaded, first, payload, result, exc, optq>>

NextRecords == NormalizeRecord

SpecRecords == InitRecords /\ [][NextRecords]_vars

(***************************************************************************)
(* Calls of generate_questions that run concurrently on one generator      *)
(***************************************************************************)
MaxThreads == 2
Threads == 1..MaxThreads

\* the texts the service returns to the concurrent calls
ThreadSamples ==
  {[wrap |-> "plain", kind |-> "bare", recs |-> <<RecFull>>],
   [wrap |-> "plain", kind |-> "bare", recs |-> <<RecBare>>],
   [wrap |-> "fenced", kind |-> "min", recs |-> <<RecStrOptions>>],
   [wrap |-> "plain", kind |-> "prose", recs |-> <<>>]}

\* the local variables of a call that has not run a statement yet
NewCall(r) ==
  [pc |-> "start", req |-> r, calls |-> 0, raw |-> <<>>, repaired |-> <<>>,
   payload |-> NoValue, result |-> NoValue, exc |-> NoException]

\* lines 350-355 as a function of the validated payload
WithComputedFields(p) ==
  [p EXCEPT !.total_questions = Len(p.questions),
            !.generic_count = Cardinality({i \in 1..Len(p.questions) : p.questions[i].is_generic}),
            !.practical_count =
              Len(p.questions) - Cardinality({i \in 1..Len(p.questions) : p.questions[i].is_generic})]

\* raw kept in an attribute of the generator instead: a call reads the text
\* stored by the highest-numbered call that has been served
SharedRaw(c) ==
  threads[CHOOSE d \in Threads :
            /\ threads[d].raw # <<>>
            /\ \A e \in Threads : threads[e].raw # <<>> => e <= d].raw

\* raw as call c reads it: a local variable of that call
LocalRaw(c) == threads[c].raw

InitThreads ==
  /\ pc = "threads"
  /\ req \in {r \in Requests : r.num_questions = 1}
  /\ calls = 0
  /\ sent = <<>>
  /\ sample = NoSample
  /\ raw = <<>>
  /\ loaded = NoValue
  /\ first = NoValue
  /\ payload = NoValue
  /\ result = NoValue
  /\ exc = NoException
  /\ optq = JNone
  /\ optout = <<>>
  /\ generator = NewGenerator
  /\ service = NoService
  /\ session = NoSession
  /\ threads = [c \in Threads |-> NewCall(req)]

\* lines 331-341 in call c: self.gemini.generate returns a text
ThreadInitialReturns(c) ==
  /\ threads[c].pc = "start"
  /\ _build_prompt(threads[c].req).ok
  /\ generator.gemini = "gemini_handler"
  /\ \E s \in ThreadSamples :
       threads' = [threads EXCEPT ![c].raw = TextOf(s), ![c].calls = 1, ![c].pc = "called"]
  /\ UNCHANGED <<service, session, generator, pc, req, calls, sent, sample, raw, loaded, first, payload, result,
                 exc, optq, optout>>

\* lines 338-341 in call c: self.gemini.generate raises
ThreadInitialRaises(c) ==
  /\ threads[c].pc = "start"
  /\ _build_prompt(threads[c].req).ok
  /\ generator.gemini = "gemini_handler"
  /\ threads' = [threads EXCEPT ![c].exc = [type |-> "ServiceError", args |-> <<>>],
                                ![c].calls = 1, ![c].pc = "raised"]
  /\ UNCHANGED <<service, session, generator, pc, req, calls, sent, sample, raw, loaded, first, payload, result,
                 exc, optq, optout>>

\* the locals t of a call after the try block, r being what the pass gave
ThreadAfterPass(t, r) ==
  [t EXCEPT !.payload = IF r.ok THEN Returned(r.payload) ELSE NoValue,
            !.pc = IF r.ok THEN "fill" ELSE "except"]

\* lines 344-345 in call c
ThreadFirstPass(c) ==
  /\ threads[c].pc = "called"
  /\ \E uu \in UuidDraws(try_load_json(LocalRaw(c)).data) :
       threads' = [threads EXCEPT ![c] =
                     ThreadAfterPass(@, _parse_validate(LocalRaw(c),
                                                        JStr(@.req.difficulty_level), uu))]
  /\ UNCHANGED <<service, session, generator, pc, req, calls, sent, sample, raw, loaded, first, payload, result,
                 exc, optq, optout>>

\* the locals t of a call after line 348, r being what the second pass gave
ThreadAfterSecondPass(t, text, r) ==
  [t EXCEPT !.repaired = text, !.calls = 2,
            !.payload = IF r.ok THEN Returned(r.payload) ELSE NoValue,
            !.exc = IF r.ok THEN t.exc ELSE StageError(r.stage),
            !.pc = IF r.ok THEN "fill" ELSE "raised"]

\* line 313 in _repair_once: the KeyError of str.format leaves the call
ThreadFormatRaises(t, fix) ==
  [t EXCEPT !.exc = [type |-> fix.exc, args |-> << <<fix.key>> >>], !.pc = "raised"]

\* lines 346-348 in call c
ThreadExceptHandler(c) ==
  /\ threads[c].pc = "except"
  /\ IF ~FixPrompt(LocalRaw(c)).ok
     THEN threads' = [threads EXCEPT ![c] = ThreadFormatRaises(@, FixPrompt(LocalRaw(c)))]
     ELSE \/ threads' = [threads EXCEPT ![c].exc = [type |-> "ServiceError", args |-> <<>>],
                                        ![c].calls = 2, ![c].pc = "raised"]
          \/ \E s \in ThreadSamples :
             \E uu \in UuidDraws(try_load_json(TextOf(s)).data) :
               threads' = [threads EXCEPT ![c] =
                             ThreadAfterSecondPass(@, TextOf(s),
                               _parse_validate(TextOf(s), JStr(@.req.difficulty_level), uu))]
  /\ UNCHANGED <<service, session, generator, pc, req, calls, sent, sample, raw, loaded, first, payload, result,
                 exc, optq, optout>>

\* lines 350-355 in call c
ThreadFillComputed(c) ==
  /\ threads[c].pc = "fill"
  /\ threads' = [threads EXCEPT ![c].result = Returned(WithComputedFields(threads[c].payload.val)),
                                ![c].pc = "returned"]
  /\ UNCHANGED <<service, session, generator, pc, req, calls, sent, sample, raw, loaded, first, payload, result,
                 exc, optq, optout>>

NextThreads ==
  \E c \in Threads :
    \/ ThreadInitialReturns(c)
    \/ ThreadInitialRaises(c)
    \/ ThreadFirstPass(c)
    \/ ThreadExceptHandler(c)
    \/ ThreadFillComputed(c)

SpecThreads == InitThreads /\ [][NextThreads]_vars

(***************************************************************************)
(* generate_questions on a generator built with a GeminiHandler            *)
(***************************************************************************)
\* GeminiHandler.generate: a dict of the response of the SDK and of the text
\* extracted from it
GeminiGenerate(text) == JDict(<<KV("raw", W("response")), KV("text", JStr(text))>>)

\* _parse_validate(x, difficulty) for whatever value x the handler returned:
\* for a value that is not a string json.loads raises a TypeError, which
\* try_load_json catches, and x.strip() raises an AttributeError, which leaves
\* try_load_json and _parse_validate
ParseValidateValue(x, difficulty, uu) ==
  IF x.t = "str" THEN _parse_validate(x.v, difficulty, uu)
  ELSE [ok |-> FALSE, stage |-> "load"]

\* the uuids drawn while x is normalised
ValueUuidDraws(x) == IF x.t = "str" THEN UuidDraws(try_load_json(x.v).data) ELSE {<<>>}

\* bad[:800] for a dict: a slice is no key of it. TypeError where a slice is
\* unhashable, KeyError where it is hashable
SliceOfDictRaises == {"TypeError", "KeyError"}

\* _repair_once(bad) up to the call of the handler: the exception raised, or
\* none
RepairRaises(bad, e) ==
  IF bad.t # "str" THEN [type |-> e, args |-> << <<"slice">> >>]
  ELSE IF ~FixPrompt(bad.v).ok
       THEN [type |-> FixPrompt(bad.v).exc, args |-> << <<FixPrompt(bad.v).key>> >>]
  ELSE NoException

InitWired ==
  /\ pc = "wired_start"
  /\ req \in Requests
  /\ calls = 0
  /\ sent = <<>>
  /\ sample = NoSample
  /\ raw = JNone
  /\ loaded = NoValue
  /\ first = NoValue
  /\ payload = NoValue
  /\ result = NoValue
  /\ exc = NoException
  /\ optq = JNone
  /\ optout = <<>>
  /\ generator = [gemini |-> "GeminiHandler"]
  /\ service = NoService
  /\ session = NoSession
  /\ threads = <<>>

\* lines 331-341: the handler extracts the text s of the response
WiredInitialReturns ==
  /\ pc = "wired_start"
  /\ _build_prompt(req).ok
  /\ \E s \in Samples :
       /\ sample' = s
       /\ raw' = GeminiGenerate(TextOf(s))
  /\ calls' = calls + 1
  /\ sent' = Append(sent, "initial")
  /\ pc' = "wired_called"
  /\ UNCHANGED <<service, session, generator, threads, req, loaded, first, payload, result, exc, optq, optout>>

\* lines 338-341: the handler raises (ImportError, RuntimeError, an error of
\* the SDK)
WiredInitialRaises ==
  /\ pc = "wired_start"
  /\ _build_prompt(req).ok
  /\ calls' = calls + 1
  /\ sent' = Append(sent, "initial")
  /\ exc' = [type |-> "ServiceError", args |-> <<>>]
  /\ pc' = "raised"
  /\ UNCHANGED <<service, session, generator, threads, req, sample, raw, loaded, first, payload, result, optq,
                 optout>>

\* lines 350-355 for the payload of the pass r
WiredReturn(r) ==
  /\ payload' = Returned(r.payload)
  /\ result' = Returned(WithComputedFields(r.payload))
  /\ pc' = "returned"

\* lines 347-348 when _repair_once got as far as the handler: the second call
\* raises, or its value goes through the second pass
WiredSecondCall ==
  /\ calls' = calls + 1
  /\ sent' = Append(sent, "fix")
  /\ \/ /\ exc' = [type |-> "ServiceError", args |-> <<>>]
        /\ pc' = "raised"
        /\ UNCHANGED <<payload, result>>
     \/ \E s \in Samples :
          IF ParseValidateValue(GeminiGenerate(TextOf(s)), JStr(req.difficulty_level), <<>>).ok
          THEN /\ WiredReturn(ParseValidateValue(GeminiGenerate(TextOf(s)),
                                                 JStr(req.difficulty_level), <<>>))
               /\ UNCHANGED exc
          ELSE /\ exc' = [type |-> "AttributeError", args |-> << <<"strip">> >>]
               /\ pc' = "raised"
               /\ UNCHANGED <<payload, result>>

\* lines 346-348: the except block, e being what the slice of a dict raises
WiredExcept(e) ==
  IF RepairRaises(raw, e) # NoException
  THEN /\ exc' = RepairRaises(raw, e)
       /\ pc' = "raised"
       /\ UNCHANGED <<calls, sent, payload, result>>
  ELSE WiredSecondCall

\* lines 344-355 for the pass r over the value the handler returned
WiredAfterPass(r, e) ==
  /\ first' = r
  /\ IF r.ok THEN WiredReturn(r) /\ UNCHANGED <<calls, sent, exc>> ELSE WiredExcept(e)

\* lines 344-355: generate_questions from the try block to its end
WiredRun ==
  /\ pc = "wired_called"
  /\ \E uu \in ValueUuidDraws(raw) : \E e \in SliceOfDictRaises :
       WiredAfterPass(ParseValidateValue(raw, JStr(req.difficulty_level), uu), e)
  /\ UNCHANGED <<service, session, generator, threads, req, sample, raw, loaded, optq, optout>>

NextWired == WiredInitialReturns \/ WiredInitialRaises \/ WiredRun

SpecWired == InitWired /\ [][NextWired]_vars

(***************************************************************************)
(* utils/gemini_service.py: GeminiService.generate_questions               *)
(***************************************************************************)
max_retries == 5
base_delay == 2
MaxWords == 2

\* the words the except block looks for in str(e), as a message may spell them
Marks ==
  {"429", "Resource exhausted", "resource exhausted", "Quota", "Blocked", "safety", "None",
   "none", "Empty"}

\* str(e) as the set of the marks it contains
ErrorMessages == {m \in SUBSET Marks : Cardinality(m) <= MaxWords}

LowerMark(w) ==
  CASE w = "Resource exhausted" -> "resource exhausted"
    [] w = "Quota" -> "quota"
    [] w = "Blocked" -> "blocked"
    [] w = "SAFETY" -> "safety"
    [] w = "None" -> "none"
    [] w = "Empty" -> "empty"
    [] OTHER -> w

\* the marks of error_message.lower()
MessageLower(m) == {LowerMark(w) : w \in m}

\* "Check for rate limit"
IsRateLimit(m) == "429" \in m \/ "Resource exhausted" \in m \/ "quota" \in MessageLower(m)

\* "Check for blocked response"
IsBlocked(m) == "blocked" \in MessageLower(m) \/ "safety" \in MessageLower(m)

\* "Check for empty/None response"
IsEmptyResponse(m) == "None" \in m \/ "empty" \in MessageLower(m)

\* what model.generate_content does: it returns a response with a text, None,
\* a response without the attribute text, a response whose text is None or
\* blank, or it raises an error with some message
Responses ==
  [kind : {"text", "none", "no_text", "text_none", "blank"}, message : {{}}]
  \cup [kind : {"error"}, message : ErrorMessages]

\* str(e) for the exception the try block ends with
MessageOf(o) ==
  CASE o.kind = "none" -> {"None"}
    [] o.kind = "no_text" -> {}
    [] o.kind \in {"text_none", "blank"} -> {"empty"}
    [] OTHER -> o.message

NewServiceCall(model) ==
  [pc |-> "start", model |-> model, attempt |-> 0, calls |-> 0, sleeps |-> <<>>,
   last |-> [kind |-> "none_yet", message |-> {}], exc |-> "none"]

Raise(sv, e) == [sv EXCEPT !.pc = "raised", !.exc = e]

\* time.sleep(d) and continue
SleepAndContinue(sv, d) ==
  [sv EXCEPT !.sleeps = Append(@, [after |-> sv.attempt + 1, delay |-> d]),
             !.attempt = @ + 1]

\* the retry taken on every attempt
MayRetryAlways(sv) == TRUE

\* if attempt < max_retries - 1
MayRetry(sv) == sv.attempt < max_retries - 1

\* the except block for the message m
Except(sv, m) ==
  IF IsRateLimit(m)
  THEN IF MayRetry(sv) THEN SleepAndContinue(sv, base_delay * (2 ^ sv.attempt))
       ELSE Raise(sv, "Rate limit exceeded")
  ELSE IF IsBlocked(m) THEN Raise(sv, "blocked by safety filters")
  ELSE IF IsEmptyResponse(m)
       THEN IF MayRetry(sv) THEN SleepAndContinue(sv, 2)
            ELSE Raise(sv, "empty response after retries")
  ELSE Raise(sv, "Error generating questions")

\* one pass of the loop body, o being what generate_content did
Attempt(sv, o) ==
  IF o.kind = "text" THEN [sv EXCEPT !.pc = "returned", !.calls = @ + 1, !.last = o]
  ELSE Except([sv EXCEPT !.calls = @ + 1, !.last = o], MessageOf(o))

InitService ==
  /\ pc = "service"
  /\ req \in {r \in Requests : r.num_questions = 1}
  /\ calls = 0
  /\ sent = <<>>
  /\ sample = NoSample
  /\ raw = <<>>
  /\ loaded = NoValue
  /\ first = NoValue
  /\ payload = NoValue
  /\ result = NoValue
  /\ exc = NoException
  /\ optq = JNone
  /\ optout = <<>>
  /\ generator = NewGenerator
  /\ threads = <<>>
  /\ service \in {NewServiceCall(mdl) : mdl \in {"None", "model"}}
  /\ session = NoSession

\* "if self.model is None" and the entry of the loop
ServiceStart ==
  /\ service.pc = "start"
  /\ service' = IF service.model = "None" THEN Raise(service, "Model not initialized")
                ELSE [service EXCEPT !.pc = "loop"]
  /\ UNCHANGED <<session, generator, threads, pc, req, calls, sent, sample, raw, loaded, first,
                 payload, result, exc, optq, optout>>

\* one iteration of "for attempt in range(max_retries)", and the raise after
\* the loop
ServiceAttempt ==
  /\ service.pc = "loop"
  /\ IF service.attempt < max_retries
     THEN \E o \in Responses : service' = Attempt(service, o)
     ELSE service' = Raise(service, "Failed to generate questions after multiple retries")
  /\ UNCHANGED <<session, generator, threads, pc, req, calls, sent, sample, raw, loaded, first,
                 payload, result, exc, optq, optout>>

NextService == ServiceStart \/ ServiceAttempt

\* the call runs on: generate_content and time.sleep return
SpecService == InitService /\ [][NextService]_vars /\ WF_vars(NextService)

(***************************************************************************)
(* app.py: the Streamlit script, one run of the script per user action     *)
(***************************************************************************)
MaxPairs == 2

QuestionTexts == {"Q1?", "Q2?"}
AnswerTexts == {"A1", "A2"}
TopicTexts == {JStr(<<"ML">>)}

\* what the two text areas of one expander return
TextAreas == [question : QuestionTexts, answer : AnswerTexts]

\* the question and answer pairs a response holds
ParsedPairs == {[question |-> "Q1?", answer |-> "A1"], [question |-> "Q2?", answer |-> "A2"]}

\* the lists GeminiService.parse_qa_pairs returns
QaLists ==
  UNION {{[i \in 1..n |-> [id |-> i, question |-> f[i].question, answer |-> f[i].answer,
                           type |-> "generic"]] : f \in [1..n -> ParsedPairs]} : n \in 0..MaxPairs}

\* what lines 163-203 end with: an exception, or the list of the last parse
GenerationOutcomes == {[kind |-> "error", qa |-> <<>>]} \cup [kind : {"parsed"}, qa : QaLists]

\* the bytes a document generator returns for a list of questions
Rendered(kind, qa_pairs, topic) == [kind |-> kind, of |-> qa_pairs, topic |-> topic]

\* "Initialize session state"
NewSession ==
  [qa_pairs |-> JNone, generated_topic |-> JNone, pdf_bytes |-> JNone, word_bytes |-> JNone,
   generation_params |-> JNone, download |-> JNone]

\* "if clear_btn"
ClearHandler(ss) ==
  [ss EXCEPT !.qa_pairs = JNone, !.generated_topic = JNone, !.pdf_bytes = JNone,
             !.word_bytes = JNone, !.generation_params = JNone, !.download = JNone]

\* "if generate_btn": valid is the validation of the inputs, o what the
\* services and the parse end with
GenerateHandler(ss, valid, topic, o) ==
  IF ~valid THEN ss
  ELSE IF o.kind = "error" \/ o.qa = <<>>
       THEN [ss EXCEPT !.pdf_bytes = JNone, !.word_bytes = JNone, !.generation_params = topic]
       ELSE [ss EXCEPT !.pdf_bytes = JNone, !.word_bytes = JNone, !.generation_params = topic,
                       !.qa_pairs = JList(o.qa), !.generated_topic = topic]

\* the edit stored without the reset of the cached documents
EditHandlerKeepCaches(ss, i, edited) ==
  [ss EXCEPT !.qa_pairs.v[i].question = edited.question, !.qa_pairs.v[i].answer = edited.answer]

\* "if edited_q != qa['question'] or edited_a != qa['answer']"
EditHandler(ss, i, edited) ==
  [ss EXCEPT !.qa_pairs.v[i].question = edited.question, !.qa_pairs.v[i].answer = edited.answer,
             !.pdf_bytes = JNone, !.word_bytes = JNone]

RECURSIVE ReviewFrom(_, _, _)
\* the loop of the review tab from expander i on
ReviewFrom(ss, areas, i) ==
  IF i > Len(ss.qa_pairs.v) THEN ss
  ELSE IF areas[i].question # ss.qa_pairs.v[i].question \/ areas[i].answer # ss.qa_pairs.v[i].answer
       THEN ReviewFrom(EditHandler(ss, i, areas[i]), areas, i + 1)
       ELSE ReviewFrom(ss, areas, i + 1)

\* "with tab2"
ReviewTab(ss, areas) == IF ss.qa_pairs = JNone THEN ss ELSE ReviewFrom(ss, areas, 1)

\* "with tab3": the format chosen, the button pressed or not, the generator
\* returning bytes or raising; download is the data of the download button
ExportTab(ss, export_format, pressed, raises) ==
  IF ss.qa_pairs = JNone THEN [ss EXCEPT !.download = JNone]
  ELSE IF export_format = "PDF"
       THEN IF pressed /\ ~raises
            THEN [ss EXCEPT !.pdf_bytes = Rendered("pdf", ss.qa_pairs, ss.generated_topic),
                            !.download = Rendered("pdf", ss.qa_pairs, ss.generated_topic)]
            ELSE [ss EXCEPT !.download = ss.pdf_bytes]
       ELSE IF pressed /\ ~raises
            THEN [ss EXCEPT !.word_bytes = Rendered("word", ss.qa_pairs, ss.generated_topic),
                            !.download = Rendered("word", ss.qa_pairs, ss.generated_topic)]
            ELSE [ss EXCEPT !.download = ss.word_bytes]

\* the values the text areas of the review tab can return for the session
AreasFor(ss) == IF ss.qa_pairs = JNone THEN {<<>>} ELSE [1..Len(ss.qa_pairs.v) -> TextAreas]

\* the script from the review tab to its end
RestOfScript(ss, pressed) ==
  {ExportTab(ReviewTab(ss, areas), f, pressed, raises) :
     areas \in AreasFor(ss), f \in {"PDF", "Word Document"}, raises \in BOOLEAN}

InitSession ==
  /\ pc = "session"
  /\ req \in {r \in Requests : r.num_questions = 1}
  /\ calls = 0
  /\ sent = <<>>
  /\ sample = NoSample
  /\ raw = <<>>
  /\ loaded = NoValue
  /\ first = NoValue
  /\ payload = NoValue
  /\ result = NoValue
  /\ exc = NoException
  /\ optq = JNone
  /\ optout = <<>>
  /\ generator = NewGenerator
  /\ threads = <<>>
  /\ service = NoService
  /\ session = NewSession

\* a run with the Clear button pressed: the reset and st.rerun(), after which
\* the tabs have nothing to show
SessionClear ==
  /\ session' = ClearHandler(session)
  /\ UNCHANGED <<service, generator, threads, pc, req, calls, sent, sample, raw, loaded, first,
                 payload, result, exc, optq, optout>>

\* a run with the Generate button pressed
SessionGenerate ==
  /\ \E valid \in BOOLEAN, topic \in TopicTexts, o \in GenerationOutcomes :
       session' \in RestOfScript(GenerateHandler(session, valid, topic, o), FALSE)
  /\ UNCHANGED <<service, generator, threads, pc, req, calls, sent, sample, raw, loaded, first,
                 payload, result, exc, optq, optout>>

\* a run after a change of a text area or of the format, no button pressed
SessionEdit ==
  /\ session' \in RestOfScript(session, FALSE)
  /\ UNCHANGED <<service, generator, threads, pc, req, calls, sent, sample, raw, loaded, first,
                 payload, result, exc, optq, optout>>

\* a run with the Generate PDF or Generate Word Document button pressed
SessionExport ==
  /\ session.qa_pairs # JNone
  /\ session' \in RestOfScript(session, TRUE)
  /\ UNCHANGED <<service, generator, threads, pc, req, calls, sent, sample, raw, loaded, first,
                 payload, result, exc, optq, optout>>

NextSession == SessionClear \/ SessionGenerate \/ SessionEdit \/ SessionExport

SpecSession == InitSession /\ [][NextSession]_vars

(***************************************************************************)
(* Properties                                                              *)
(***************************************************************************)
Finished == pc \in {"returned", "raised"}
\* the first _parse_validate ran and raised
FirstFailed == first # NoValue /\ ~first.ok
FixesSent == Cardinality({i \in 1..Len(sent) : sent[i] = "fix"})

\* the text of the i-th record as the service wrote it
RawText(rec) ==
  IF rec.t # "dict" THEN PyStr(rec)
  ELSE IF Truthy(Field(rec, "text")) THEN Field(rec, "text").v
  ELSE Field(rec, "question").v

\* C1: during one call of generate_questions gemini.generate is invoked at
\* most twice: first with the initial prompt, then at most once with the
\* remediation prompt.
C1_AtMostTwoCalls ==
  /\ calls <= 2
  /\ Len(sent) = calls
  /\ FixesSent <= 1
  /\ \A i \in 1..Len(sent) : (sent[i] = "initial") = (i = 1)

\* a call that ended after its first pass had failed
C1_Witness == pc = "raised" /\ FirstFailed /\ calls = 1

\* C2: when the list _normalize_options returns is not empty, exactly one of
\* its options has is_correct true.
C2_ExactlyOneCorrect ==
  pc = "options_done" /\ optout # <<>> =>
    Cardinality({i \in 1..Len(optout) : optout[i].is_correct}) = 1

\* two items that are both marked correct in the input
C2_Witness ==
  /\ pc = "options_done"
  /\ Len(optout) = 2
  /\ LET items == Field(optq, "options").v
     IN /\ items[1].t = "dict" /\ items[2].t = "dict"
        /\ \A i \in 1..2 : _coerce_bool(Get(JDict(CleanKeys(items[i].v, <<>>)), <<"is_correct">>))
  /\ optout[1].is_correct

\* C3: a returned result has total_questions = len(questions) and
\* generic_count + practical_count = total_questions, generic_count being the
\* number of records whose is_generic is true.
C3_CountConservation ==
  pc = "returned" =>
    /\ result.val.total_questions = Len(result.val.questions)
    /\ result.val.generic_count + result.val.practical_count = result.val.total_questions
    /\ result.val.generic_count =
         Cardinality({i \in 1..Len(result.val.questions) : result.val.questions[i].is_generic})

\* a result for an envelope that stated counts of its own, of two records of
\* which one is generic
C3_Witness ==
  /\ pc = "returned"
  /\ sample.kind = "full"
  /\ Len(result.val.questions) = 2
  /\ result.val.generic_count = 1

\* C4: when the validated output holds k records, k < num_questions, the
\* result has num_questions records: the k records of the service, then
\* num_questions - k placeholders of type short, generic, with an empty answer.
C4_QuantityGuarantee ==
  pc = "returned" /\ Len(payload.val.questions) < req.num_questions =>
    /\ Len(result.val.questions) = req.num_questions
    /\ \A i \in 1..Len(result.val.questions) :
         IF i <= Len(payload.val.questions)
         THEN result.val.questions[i] = payload.val.questions[i]
         ELSE /\ result.val.questions[i].type = "short"
              /\ result.val.questions[i].is_generic
              /\ result.val.questions[i].answer \in {JNone, EmptyStr}

\* C5: when the validated output holds more records than num_questions, the
\* result holds all of them in the order of the service, and total_questions
\* is their number.
C5_OverDeliveryKept ==
  pc = "returned" /\ Len(sample.recs) > req.num_questions =>
    /\ Len(result.val.questions) = Len(sample.recs)
    /\ \A i \in 1..Len(sample.recs) : result.val.questions[i].text = RawText(sample.recs[i])
    /\ result.val.total_questions = Len(sample.recs)

\* two different records returned for a request of one
C5_Witness ==
  /\ pc = "returned"
  /\ req.num_questions = 1
  /\ Len(sample.recs) = 2
  /\ RawText(sample.recs[1]) # RawText(sample.recs[2])

\* C6: a call whose first pass failed sends exactly one remediation request
\* (two service calls in all), and a call whose first pass succeeded sends none.
C6_OneRemediation ==
  Finished /\ first # NoValue =>
    IF first.ok THEN FixesSent = 0 /\ calls = 1
    ELSE FixesSent = 1 /\ calls = 2

C8_FailureCarriesFragment ==
  pc = "raised" /\ FirstFailed =>
    /\ result = NoValue
    /\ \E i \in 1..Len(exc.args) : exc.args[i] = raw

\* C9: a text that json.loads decodes is a successful parse: the decoded value
\* is returned as it is, no repair is applied, and _parse_validate does not
\* report a parse failure.
C9_StrictDecodeIsParse ==
  first # NoValue /\ json_loads(raw).ok =>
    /\ loaded.data = json_loads(raw).val
    /\ ~loaded.repaired
    /\ first.stage # "parse"

\* C10: a response that json.loads rejects only for its code fence or its
\* trailing comma decodes after the repair to the document it wraps, and when
\* that document validates the call returns after one service call.
C10_FenceCommaRepaired ==
  /\ first # NoValue
  /\ sample.kind \in EnvKinds
  /\ sample.wrap \in {"fenced", "comma", "fenced_comma"}
  /\ ~json_loads(raw).ok
  =>
    /\ loaded.data = DocOf(sample.kind, sample.recs)
    /\ first.stage # "parse"
    /\ (Finished /\ first.ok => pc = "returned" /\ calls = 1)

\* C11: the topic, context, difficulty and question types of a returned result
\* are those of the request, whatever the service wrote for them.
C11_EchoesRequest ==
  pc = "returned" =>
    /\ result.val.topic = req.topic
    /\ result.val.context = req.context
    /\ result.val.difficulty = req.difficulty_level
    /\ result.val.question_types =
         [i \in 1..Len(req.question_types) |-> req.question_types[i][1]]

\* C12: in a returned result every record has an id and a text, and every
\* record of type mcq has a list of options that is not empty and in which
\* exactly one option is marked correct.
C12_RecordsComplete ==
  pc = "returned" =>
    \A i \in 1..Len(result.val.questions) :
      LET q == result.val.questions[i]
      IN /\ q.id # <<>>
         /\ q.text # <<>>
         /\ q.type = "mcq" =>
              /\ q.options.t = "list"
              /\ q.options.v # <<>>
              /\ Cardinality({j \in 1..Len(q.options.v) : q.options.v[j].is_correct}) = 1

\* C13: the ids of the records of a returned result are pairwise distinct.
\* Stated for the results all of whose ids the service supplied; two ids the
\* pipeline draws are equal only when two uuid4 values share 8 hex digits.
C13_DistinctIds ==
  pc = "returned" /\ NeedIds(loaded.data) = {} =>
    \A i, j \in 1..Len(result.val.questions) :
      i # j => result.val.questions[i].id # result.val.questions[j].id

\* C14: a record that carries an id which is not empty has that very id in
\* the result, and a record whose id is absent or empty has a generated one.
C14_IdsPreserved ==
  pc = "returned" =>
    \A i \in 1..Len(sample.recs) :
      IF sample.recs[i].t = "dict" /\ Truthy(Field(sample.recs[i], "id"))
      THEN result.val.questions[i].id = Field(sample.recs[i], "id").v
      ELSE result.val.questions[i].id \in {<<u>> : u \in Uuids}

\* a result of two records: one carried an id, the other an empty one
C14_Witness ==
  /\ pc = "returned"
  /\ Len(sample.recs) = 2
  /\ sample.recs[1].t = "dict" /\ Truthy(Field(sample.recs[1], "id"))
  /\ sample.recs[2].t = "dict" /\ Field(sample.recs[2], "id") = EmptyStr
  /\ result.val.questions[1].id = Field(sample.recs[1], "id").v
  /\ result.val.questions[2].id \in {<<u>> : u \in Uuids}

\* what a call that ran alone would hand its caller after the pass r on the
\* text it was served
AloneAfterPass(text, r) ==
  IF r.ok
  THEN [result |-> Returned(WithComputedFields(r.payload)), exc |-> NoException, calls |-> 1]
  ELSE [result |-> NoValue,
        exc |-> [type |-> FixPrompt(text).exc, args |-> << <<FixPrompt(text).key>> >>],
        calls |-> 1]

\* the outcomes of a call that runs alone with the locals' request and is
\* served the text the call t was served
AloneOutcomes(t) ==
  IF t.raw = <<>> /\ t.exc.type = "ServiceError"
  THEN {[result |-> NoValue, exc |-> [type |-> "ServiceError", args |-> <<>>], calls |-> 1]}
  ELSE {AloneAfterPass(t.raw, _parse_validate(t.raw, JStr(t.req.difficulty_level), uu)) :
          uu \in UuidDraws(try_load_json(t.raw).data)}

\* C15: calls that run concurrently on one generator do not affect one
\* another: the generator keeps the attributes __init__ gave it, and a call
\* that has ended has an outcome it has when it runs alone and is served the
\* same text.
C15_CallsIndependent ==
  pc = "threads" =>
    /\ generator = NewGenerator
    /\ \A c \in Threads :
         threads[c].pc \in {"returned", "raised"} =>
           [result |-> threads[c].result, exc |-> threads[c].exc, calls |-> threads[c].calls]
             \in AloneOutcomes(threads[c])

\* two calls that were served different texts have both ended, one with a
\* result and one with an exception
C15_Witness ==
  /\ pc = "threads"
  /\ threads[1].pc = "returned"
  /\ threads[2].pc = "raised"
  /\ threads[2].raw # <<>>
  /\ threads[1].raw # threads[2].raw

\* C16: the operation the generator calls returns text: the value that
\* GeminiHandler.generate returns is the string handed to the parser, and when
\* that text decodes strictly to a document that validates, the call returns
\* a result after one call of the handler.
C16_HandlerReturnsText ==
  generator.gemini = "GeminiHandler" /\ sample # NoSample =>
    /\ raw.t = "str"
    /\ raw.v = TextOf(sample)
    /\ pc \in {"returned", "raised"}
         /\ json_loads(TextOf(sample)).ok
         /\ (\E uu \in UuidDraws(try_load_json(TextOf(sample)).data) :
               _parse_validate(TextOf(sample), JStr(req.difficulty_level), uu).ok)
         => pc = "returned" /\ calls = 1

\* the envelopes that differ only in the counts they state
CountKinds == {"full", "words"}

\* the call ended as a call alone ends after the pass r on text
SameOutcome(text, r) ==
  /\ AloneAfterPass(text, r).result = result
  /\ AloneAfterPass(text, r).calls = calls
  /\ r.ok = (pc = "returned")

\* C17: total_questions, generic_count and practical_count as the service
\* wrote them are never trusted: a call that ended on an envelope ends the
\* same way (result or exception, records, counts, number of calls) on every
\* envelope that differs from it only in the counts it states.
C17_CountsNotTrusted ==
  Finished /\ sample # NoSample /\ first # NoValue /\ sample.kind \in CountKinds =>
    \A k \in CountKinds :
      \E uu \in UuidDraws(loaded.data) :
        SameOutcome(TextOf([sample EXCEPT !.kind = k]),
                    _parse_validate(TextOf([sample EXCEPT !.kind = k]),
                                    JStr(req.difficulty_level), uu))

\* the positions of the token tk in s
PositionsOf(s, tk) == {i \in 1..Len(s) : s[i] = tk}

Least(S) == CHOOSE i \in S : \A j \in S : i <= j
Greatest(S) == CHOOSE i \in S : \A j \in S : j <= i

\* s from its first opening brace to its last closing brace, s itself when
\* there is no such span
BraceSpan(s) ==
  IF PositionsOf(s, "{") # {} /\ PositionsOf(s, "}") # {}
     /\ Least(PositionsOf(s, "{")) < Greatest(PositionsOf(s, "}"))
  THEN SubSeq(s, Least(PositionsOf(s, "{")), Greatest(PositionsOf(s, "}")))
  ELSE s

\* C18: when the text of the service holds a decodable object with prose
\* around it, what is decoded is the text from the first opening brace to the
\* last closing brace, so the text is parsed without a remediation request.
C18_ObjectInProse ==
  loaded # NoValue /\ sample.wrap \in {"prose", "around"}
      /\ json_loads(BraceSpan(raw)).ok /\ json_loads(BraceSpan(raw)).val.t = "dict" =>
    /\ ~loaded.err
    /\ loaded.data = json_loads(BraceSpan(raw)).val

\* the position after the first occurrence of tk in b at or after position j,
\* Len(b) + 2 when there is none
AfterNext(tk, b, j) ==
  IF \E k \in j..Len(b) : b[k] = tk
  THEN 1 + CHOOSE k \in j..Len(b) : b[k] = tk /\ \A l \in j..(k - 1) : b[l] # tk
  ELSE Len(b) + 2

RECURSIVE MatchEnd(_, _, _, _, _)
\* the position of b reached when a[lo..hi] is matched, token by token and
\* each token as early as possible, against b from position j on
MatchEnd(a, lo, hi, b, j) ==
  IF lo > hi THEN j
  ELSE IF lo = hi THEN AfterNext(a[lo], b, j)
  ELSE CHOOSE e \in {MatchEnd(a, ((lo + hi) \div 2) + 1, hi, b, m) :
                       m \in {MatchEnd(a, lo, (lo + hi) \div 2, b, j)}} : TRUE

\* a can be had from b by removing tokens of b
IsSubsequence(a, b) == \E s \in {a} : MatchEnd(s, 1, Len(s), b, 1) <= Len(b) + 1

\* C19: the repaired string is obtained from the text only by removing
\* characters (fence markers, wrapping quotes, commas before a closing
\* bracket): it is a subsequence of the text.
C19_RepairOnlyRemoves ==
  loaded # NoValue /\ loaded.repaired => IsSubsequence(Repaired(raw), raw)

\* the key k without quotes and outer white space, in lower case
KeyFolded(k) == UnderscoresToSpaces(CollapseSpaces(Lower(_strip_all_quotes_spaces(JStr(k)))))

\* the keys of the option objects of the record handed to _normalize_options
OptionKeys ==
  IF Field(optq, "options").t # "list" THEN {}
  ELSE UNION {{Field(optq, "options").v[i].v[n][1] : n \in 1..Len(Field(optq, "options").v[i].v)} :
                i \in {j \in 1..Len(Field(optq, "options").v) :
                         Field(optq, "options").v[j].t = "dict"}}

\* C20: _clean_key maps every key of an option object that contains
\* "correct" or "answer" to is_correct, and every key that contains
\* "explanation", "reason" or "why" to explanation, also when the key holds
\* another recognised word such as "option".
C20_KeysByContainment ==
  pc = "options_done" =>
    \A k \in OptionKeys :
      /\ Contains(KeyFolded(k), "correct") \/ Contains(KeyFolded(k), "answer")
           => _clean_key(JStr(k)) = <<"is_correct">>
      /\ Contains(KeyFolded(k), "explanation") \/ Contains(KeyFolded(k), "reason")
            \/ Contains(KeyFolded(k), "why")
           => _clean_key(JStr(k)) = <<"explanation">>

\* the option objects of the record handed to _normalize_options
OptionObjects ==
  IF Field(optq, "options").t # "list" THEN {}
  ELSE {Field(optq, "options").v[i] :
          i \in {j \in 1..Len(Field(optq, "options").v) : Field(optq, "options").v[j].t = "dict"}}

\* C21: a key that _clean_key does not recognise is returned as it was given,
\* same characters and same case, and the loop that canonicalises the keys of
\* an option object drops none of its key/value pairs.
C21_UnrecognisedKeysKept ==
  pc = "options_done" =>
    /\ \A k \in OptionKeys :
         _clean_key(JStr(k)) \notin {<<"option">>, <<"is_correct">>, <<"explanation">>}
           => _clean_key(JStr(k)) = k
    /\ \A item \in OptionObjects : Len(CleanKeys(item.v, <<>>)) = Len(item.v)

\* an option item without text: an empty string, or an object none of whose
\* fields is populated
NoOptionText(item) ==
  \/ item = EmptyStr
  \/ item.t = "dict" /\ \A n \in 1..Len(item.v) : ~Truthy(item.v[n][2])

\* C22: every option that _normalize_options returns has a text that is not
\* empty, and an item whose text is empty or missing has the text "Option".
C22_OptionTextNonEmpty ==
  pc = "options_done" /\ optout # <<>> =>
    \A i \in 1..Len(optout) :
      /\ optout[i].option # <<>>
      /\ NoOptionText(Field(optq, "options").v[i]) => optout[i].option = <<"Option">>

\* the options as they are marked before the enforcement of a single correct
\* one
MarkedInInput(i) == OptionsOfList(Field(optq, "options"))[i].is_correct

\* the text of option i is the answer field of the record, whatever the case
MatchesAnswer(i) ==
  /\ Truthy(Field(optq, "answer"))
  /\ Lower(optout[i].option) = Lower(PyStr(Field(optq, "answer")))

\* the least element of S when S is not empty, the least of T when only T is
\* not empty, 1 otherwise
FirstOf(S, T) == IF S # {} THEN Least(S) ELSE IF T # {} THEN Least(T) ELSE 1

MatchesAnswerOrCorrect(i) ==
  /\ Truthy(Or(Field(optq, "answer"), Field(optq, "correct")))
  /\ Lower(_strip_all_quotes_spaces(JStr(optout[i].option)))
       = Lower(_strip_all_quotes_spaces(Or(Field(optq, "answer"), Field(optq, "correct"))))

TypeByPriority(q) ==
  IF Truthy(Field(q, "type")) THEN Field(q, "type")
  ELSE IF Truthy(Field(q, "options")) THEN W("mcq")
  ELSE IF Truthy(Field(q, "code")) THEN W("coding")
  ELSE IF Truthy(Field(q, "answer")) /\ CharLen(PyStr(Field(q, "answer"))) < 180 THEN W("short")
  ELSE W("theory")

\* C24: a raw record without a type gets mcq when its options are not empty,
\* else coding when it has code, else short when it has an answer of less
\* than 180 characters, else theory; a record that declares a type keeps it.
C24_TypeByPriority ==
  pc = "record_done" => Field(optout, "type") = TypeByPriority(optq)

\* a record without a type that has options, code and a short answer
C24_Witness ==
  /\ pc = "record_done"
  /\ ~HasKey(optq, <<"type">>)
  /\ Truthy(Field(optq, "options"))
  /\ Truthy(Field(optq, "code"))
  /\ Field(optq, "answer") = W("A1")
  /\ Field(optout, "type") = W("mcq")

\* the raw record rec states no difficulty
NoDifficulty(rec) == rec.t # "dict" \/ ~Truthy(Field(rec, "difficulty"))

\* C25: in a returned result a record whose raw form carries no difficulty
\* has the difficulty of the request, whatever difficulty the envelope of
\* the service states.
C25_RequestDifficulty ==
  pc = "returned" =>
    \A i \in 1..Len(sample.recs) :
      NoDifficulty(sample.recs[i]) => <<result.val.questions[i].difficulty>> = req.difficulty_level

\* C26: when the decoded output of the service is a bare list, the result has
\* an empty context, the difficulty of the request and no question types, and
\* every element of the list is one record of the result; for the list of
\* the one record with a question and a short answer, and a request for one
\* question, the record has type short and total_questions is 1.
C26_BareListWrapped ==
  pc = "returned" /\ loaded.data.t = "list" =>
    /\ result.val.context = <<>>
    /\ result.val.difficulty = req.difficulty_level
    /\ result.val.question_types = <<>>
    /\ Len(result.val.questions) = Len(loaded.data.v)
    /\ \A i \in 1..Len(loaded.data.v) :
         result.val.questions[i].text = RawText(loaded.data.v[i])
    /\ loaded.data.v = <<RecBare>> /\ req.num_questions = 1 =>
         /\ result.val.questions[1].type = "short"
         /\ result.val.total_questions = 1

\* the result for the bare list of the one record with a question and a
\* short answer, one question being requested
C26_Witness ==
  /\ pc = "returned"
  /\ sample.kind = "bare"
  /\ loaded.data = JList(<<RecBare>>)
  /\ req.num_questions = 1
  /\ result.val.questions[1].answer = W("A1")
  /\ result.val.total_questions = 1

\* C27: after a pass failed, at whichever stage and whatever the length of
\* the response, the remediation prompt is FIX_TEMPLATE filled with the first
\* 800 characters of the response at most, and it is sent through the
\* operation that took the initial prompt.
C27_FixPromptBounded ==
  Finished /\ FirstFailed =>
    /\ FixPrompt(raw).ok
    /\ \E i \in 1..Len(FixPrompt(raw).val) :
         /\ FixPrompt(raw).val[i] = TakeChars(raw, SnippetLimit)
         /\ CharLenIn(FixPrompt(raw).val[i], 1, Len(FixPrompt(raw).val[i])) <= 800
    /\ sent = <<"initial", "fix">>

ServiceDone == service.pc \in {"returned", "raised"}

\* a further call of generate_content is made only after a rate-limit error
\* or an empty or None response
RetryOnlyAfter ==
  service'.calls > service.calls /\ service.calls > 0 =>
    IsRateLimit(MessageOf(service.last)) \/ IsEmptyResponse(MessageOf(service.last))

\* C28: a call of GeminiService.generate_questions calls generate_content at
\* most 5 times; it returns only a text that is not empty; it never sleeps
\* after the fifth attempt; it tries again only after a rate-limit error or
\* an empty or None response; and it ends, with a text or an exception.
C28_BoundedRetries ==
  /\ [](/\ service.calls <= 5
        /\ service.pc = "returned" => service.last.kind = "text"
        /\ \A i \in 1..Len(service.sleeps) : service.sleeps[i].after < 5)
  /\ [][RetryOnlyAfter]_vars
  /\ <>ServiceDone

\* four retries, after rate-limit errors and empty responses, and the text on
\* the fifth attempt
C28_Witness ==
  /\ service.pc = "returned"
  /\ service.calls = 5
  /\ Len(service.sleeps) = 4
  /\ service.sleeps[4].delay = 16
  /\ service.sleeps[3].delay = 2

\* the message mentions "blocked" or "safety", in any case
MentionsSafety(m) == \E w \in m : LowerMark(w) \in {"blocked", "safety"}

\* C29: an error whose message mentions "blocked" or "safety", in any case,
\* is raised to the caller as a safety-filter failure the first time it
\* occurs, with no further call of generate_content, whatever else the
\* message holds.
C29_SafetyRaisedAtOnce ==
  service.last.kind = "error" /\ MentionsSafety(service.last.message) =>
    service.pc = "raised" /\ service.exc = "blocked by safety filters"

\* the cached document c is none or was rendered from the questions of ss
CurrentFor(ss, c) == c # JNone => ss.qa_pairs # JNone /\ c.of = ss.qa_pairs

\* C30: in the Streamlit session, after any runs of Generate, Clear, edit and
\* export, a cached pdf_bytes or word_bytes that is not null was rendered
\* from the present contents of qa_pairs, and so was the document offered for
\* download.
C30_CachesCurrent ==
  /\ CurrentFor(session, session.pdf_bytes)
  /\ CurrentFor(session, session.word_bytes)
  /\ CurrentFor(session, session.download)

\* both documents are cached for a list of two questions and the Word
\* document is offered for download
C30_Witness ==
  /\ session.qa_pairs # JNone
  /\ Len(session.qa_pairs.v) = 2
  /\ session.pdf_bytes = Rendered("pdf", session.qa_pairs, session.generated_topic)
  /\ session.word_bytes = Rendered("word", session.qa_pairs, session.generated_topic)
  /\ session.download = session.word_bytes

====
